---- MODULE Spec2Model ----
(***************************************************************************)
(* Byte-range dataflow analyses of the integrator: the tentative-load     *)
(* store (TentativeLoads.cpp) with its merge and its walk over unbounded   *)
(* loops, and the dead-store prover (DSE.cpp).                             *)
(*                                                                         *)
(* Three state machines share the module:                                  *)
(*   SpecMerge  - merging incoming stores at a join (TLMerger)             *)
(*   SpecTL     - the walk of a function holding one unbounded loop        *)
(*   SpecDSE    - the forward search of tryKillWriterTo                    *)
(***************************************************************************)
EXTENDS Integers, Sequences, FiniteSets, TLC

\* ------------------------------------------------------------------------
\* Bounds
\* ------------------------------------------------------------------------

\* Objects have bytes 0 .. MaxByte-1.
MaxByte == 3

\* Number of stores arriving at one merge.
MaxPreds == 3

\* Memory objects of the tentative-load model: X is an ordinary object, G a
\* global that a lock domain may name.
Objs == {"X", "G"}

Bytes == 0 .. (MaxByte - 1)

Max2(a, b) == IF a >= b THEN a ELSE b
Min2(a, b) == IF a <= b THEN a ELSE b

\* ------------------------------------------------------------------------
\* TLMapTy: a half-open coalescing interval map whose values are all true.
\* It is kept as the sorted sequence of its intervals <<start, stop>>.
\* ------------------------------------------------------------------------

\* All sorted sequences of disjoint, non-adjacent, non-empty intervals that
\* start at or after lo.
RECURSIVE MapsFrom(_)
MapsFrom(lo) ==
  {<< >>} \cup
  UNION { { << iv >> \o rest : rest \in MapsFrom(iv[2] + 1) } :
          iv \in { p \in (lo .. (MaxByte - 1)) \X ((lo + 1) .. MaxByte) : p[1] < p[2] } }

AllMaps == MapsFrom(0)

\* The bytes an interval map covers.
MapBytes(M) == { b \in Bytes : \E i \in 1 .. Len(M) : M[i][1] <= b /\ b < M[i][2] }

\* IntervalMap::find(x): the first interval that ends after x, or end().
IMFind(M, x) ==
  IF \E i \in 1 .. Len(M) : M[i][2] > x
  THEN CHOOSE i \in 1 .. Len(M) : M[i][2] > x /\ \A j \in 1 .. (i - 1) : M[j][2] <= x
  ELSE Len(M) + 1

\* IntervalMap::insert(a, b, true): adds [a,b) and coalesces it with the
\* intervals it touches.
IMInsert(M, a, b) ==
  LET touch == { i \in 1 .. Len(M) : M[i][2] >= a /\ M[i][1] <= b }
      left  == SelectSeq(M, LAMBDA iv : iv[2] < a)
      right == SelectSeq(M, LAMBDA iv : iv[1] > b)
      na    == IF touch = {} THEN a
               ELSE Min2(a, M[CHOOSE i \in touch : \A j \in touch : i <= j][1])
      nb    == IF touch = {} THEN b
               ELSE Max2(b, M[CHOOSE i \in touch : \A j \in touch : i >= j][2])
  IN left \o << <<na, nb>> >> \o right

RECURSIVE IMInsertAll(_, _)
IMInsertAll(M, ranges) ==
  IF ranges = << >> THEN M
  ELSE IMInsertAll(IMInsert(M, ranges[1][1], ranges[1][2]), Tail(ranges))

\* The inner loop of mergeStores for one interval `it` of mergeFrom: every
\* interval of mergeTo from find(it.start) on that starts before it.stop
\* contributes its overlap with `it`.
RECURSIVE KeepFor(_, _, _)
KeepFor(it, to, j) ==
  IF j > Len(to) \/ to[j][1] >= it[2] THEN << >>
  ELSE << <<Max2(to[j][1], it[1]), Min2(to[j][2], it[2])>> >> \o KeepFor(it, to, j + 1)

RECURSIVE KeepRanges(_, _, _)
KeepRanges(from, to, i) ==
  IF i > Len(from) THEN << >>
  ELSE KeepFor(from[i], to, IMFind(to, from[i][1])) \o KeepRanges(from, to, i + 1)

\* Faulty variant: mergeTo gains mergeFrom's ranges instead of losing what
\* mergeFrom lacks.
mergeStoresUnion(mergeFrom, mergeTo) ==
  IMInsertAll(mergeTo, [i \in 1 .. Len(mergeFrom) |-> mergeFrom[i]])

\* Faulty variant: mergeTo is left as it is.
mergeStoresKeepTo(mergeFrom, mergeTo) == mergeTo

\* TLMapPointer::mergeStores: mergeTo becomes the per-byte intersection.
mergeStores(mergeFrom, mergeTo) ==
  IMInsertAll(<< >>, KeepRanges(mergeFrom, mergeTo, 1))

\* ------------------------------------------------------------------------
\* Snapshots (TLLocalStore): a map from object to interval map plus the
\* allOthersClobbered flag.  st[o] = NoStore when o has no entry.
\* ------------------------------------------------------------------------

NoStore == << <<0, 0>> >>

\* The bytes of o a snapshot trusts: those inside a listed range when o has
\* an entry; when it has none, all of them unless allOthersClobbered.
Trusted(s, o) ==
  IF s.st[o] = NoStore THEN (IF s.aoc THEN {} ELSE Bytes) ELSE MapBytes(s.st[o])

SameTrust(s, t) == s.aoc = t.aoc /\ \A o \in Objs : Trusted(s, o) = Trusted(t, o)

\* The store a root function starts from (InlineAttempt::findTentativeLoads).
EmptyStore == [aoc |-> FALSE, st |-> [o \in Objs |-> NoStore]]

\* Merging one incoming store into the retained one: per object the
\* intersection of the trusted bytes, an object without entry counting as
\* wholly trusted or wholly untrusted by its store's flag; the flags are
\* or-ed.
MergeTwo(to, from) ==
  [aoc |-> to.aoc \/ from.aoc,
   st  |-> [o \in Objs |->
              IF to.st[o] # NoStore /\ from.st[o] # NoStore
                THEN mergeStores(from.st[o], to.st[o])
              ELSE IF to.st[o] # NoStore
                THEN (IF from.aoc THEN NoStore ELSE to.st[o])
              ELSE IF from.st[o] # NoStore
                THEN (IF to.aoc THEN NoStore ELSE from.st[o])
              ELSE NoStore]]

\* TLMerger::doMerge: the first incoming store is retained and every other
\* one is merged into it.
RECURSIVE MergeInto(_, _)
MergeInto(acc, rest) ==
  IF rest = << >> THEN acc
  ELSE CHOOSE r \in {MergeInto(m, Tail(rest)) : m \in {MergeTwo(acc, rest[1])}} : TRUE

doMerge(incomingBlocks) == MergeInto(incomingBlocks[1], Tail(incomingBlocks))

\* Faulty variant: the merged store keeps the first predecessor's flag.
doTLStoreMergeFirstFlag(preds) == [doMerge(preds) EXCEPT !.aoc = preds[1].aoc]

\* llvm::doTLStoreMerge: the block's store is the merge over the stores of
\* its live predecessors.
doTLStoreMerge(preds) == doMerge(preds)

\* llvm::doTLCallMerge: the caller's store after a call is the merge over
\* the stores of the callee's live return blocks (none: no store).
doTLCallMerge(rets) == doMerge(rets)

\* ------------------------------------------------------------------------
\* The classifier: TLAnalyseInstruction and what it calls.
\*
\* An instruction is a record
\*   k    "load", "store", "atomicrmw" (an atomic read-modify-write or
\*        compare-and-swap), "alloca", "call", "fence" or "nop"
\*   o    the object its pointer operand resolves to ("null": the null
\*        pointer, "none": no unique target)
\*   off, sz   the bytes accessed, [off, off+sz)
\*   fn   for a call: "indirect" (no known callee), "yieldfn" (a declared
\*        yield function) or "plain"; "" otherwise
\*   dom  for a call: "all" (no lock domain given), "G" (the lock domain
\*        {G}) or "pess" (a pessimistic lock); "" otherwise
\*   ord  the access has an ordering constraint
\*   vol  the access is volatile
\*   simple  atomicOpIsSimple holds of it
\*   known   the value it reads is known (not wholly unknown)
\*   tl0  its isThreadLocal: as the main phase left it, until it is
\*        classified
\* A call with fn = "malloc" returns the fresh heap object o; an "alloca"
\* is the stack allocation of o.
\* ------------------------------------------------------------------------

\* Faulty variant: the map is emptied and the flag left as it was.
markAllObjectsTentativeFlagKept(store) ==
  [aoc |-> store.aoc, st |-> [o \in Objs |-> NoStore]]

\* markAllObjectsTentative: an empty map with allOthersClobbered set.
markAllObjectsTentative(store) ==
  [aoc |-> TRUE, st |-> [o \in Objs |-> NoStore]]

\* The loop of markGoodBytes over the extents that start before stop: each
\* gap to the right of an extent is added.
RECURSIVE GapsRight(_, _, _)
GapsRight(M, i, stop) ==
  IF i > Len(M) \/ M[i][1] >= stop THEN << >>
  ELSE LET gapend == IF i + 1 > Len(M) THEN stop ELSE Min2(stop, M[i + 1][1])
           here   == IF M[i][2] < stop /\ M[i][2] # gapend
                     THEN << <<M[i][2], gapend>> >> ELSE << >>
       IN here \o GapsRight(M, i + 1, stop)

\* The ranges markGoodBytes adds to an existing map to cover [start, stop).
AddRanges(M, start, stop) ==
  LET it == IMFind(M, start)
  IN IF it > Len(M) \/ M[it][1] >= stop THEN << <<start, stop>> >>
     ELSE (IF M[it][1] > start THEN << <<start, M[it][1]>> >> ELSE << >>)
          \o GapsRight(M, it, stop)

\* Faulty variant: bytes are recorded only for an object that has an entry.
markGoodBytesListedOnly(store, o, start, stop, contextEnabled) ==
  IF ~contextEnabled THEN store
  ELSE IF ~store.aoc THEN store
  ELSE IF o \notin Objs THEN store
  ELSE IF store.st[o] = NoStore THEN store
  ELSE LET addRanges == AddRanges(store.st[o], start, stop)
       IN IF addRanges = << >> THEN store
          ELSE [store EXCEPT !.st[o] = IMInsertAll(store.st[o], addRanges)]

\* Faulty variant: the added ranges are appended to the object's map as
\* they are, without coalescing.
markGoodBytesNoCoalesce(store, o, start, stop, contextEnabled) ==
  IF ~contextEnabled THEN store
  ELSE IF ~store.aoc THEN store
  ELSE IF o \notin Objs THEN store
  ELSE LET addRanges == IF store.st[o] = NoStore THEN << <<start, stop>> >>
                        ELSE AddRanges(store.st[o], start, stop)
           base == IF store.st[o] = NoStore THEN << >> ELSE store.st[o]
       IN IF addRanges = << >> THEN store
          ELSE [store EXCEPT !.st[o] = base \o addRanges]

\* Faulty variant: bytes are recorded in a check-suppressed context too.
markGoodBytesWhenSuppressed(store, o, start, stop, contextEnabled) ==
  IF ~store.aoc THEN store
  ELSE IF o \notin Objs THEN store
  ELSE LET addRanges == IF store.st[o] = NoStore THEN << <<start, stop>> >>
                        ELSE AddRanges(store.st[o], start, stop)
           base == IF store.st[o] = NoStore THEN << >> ELSE store.st[o]
       IN IF addRanges = << >> THEN store
          ELSE [store EXCEPT !.st[o] = IMInsertAll(base, addRanges)]

\* markGoodBytes(GoodPtr, Len, contextEnabled, BB, Offset).
markGoodBytes(store, o, start, stop, contextEnabled) ==
  IF ~contextEnabled THEN store
  ELSE IF ~store.aoc THEN store
  ELSE IF o \notin Objs THEN store
  ELSE LET addRanges == IF store.st[o] = NoStore THEN << <<start, stop>> >>
                        ELSE AddRanges(store.st[o], start, stop)
           base == IF store.st[o] = NoStore THEN << >> ELSE store.st[o]
       IN IF addRanges = << >> THEN store
          ELSE [store EXCEPT !.st[o] = IMInsertAll(base, addRanges)]

\* walkCopyInst: a copy of constant length marks the bytes written and the
\* bytes read.
walkCopyInst(store, copyFrom, copyTo, off, len, contextEnabled) ==
  markGoodBytes(markGoodBytes(store, copyTo, off, off + len, contextEnabled),
                copyFrom, off, off + len, contextEnabled)

\* Faulty variant: a lock domain clobbers like a call without one.
updateTLStoreDomainClobbersAll(SI, contextEnabled, store, singleThreaded) ==
  CASE SI.k = "alloca" ->
         markGoodBytes(store, SI.o, 0, MaxByte, contextEnabled)
    [] SI.k = "load" ->
         IF (SI.vol \/ SI.ord) /\ ~SI.simple THEN markAllObjectsTentative(store)
         ELSE markGoodBytes(store, SI.o, SI.off, SI.off + SI.sz, contextEnabled)
    [] SI.k = "store" ->
         markGoodBytes(store, SI.o, SI.off, SI.off + SI.sz, contextEnabled)
    [] SI.k = "atomicrmw" /\ SI.ord ->
         IF SI.tl0 = "MustCheck" /\ ~SI.simple THEN markAllObjectsTentative(store)
         ELSE markGoodBytes(store, SI.o, SI.off, SI.off + SI.sz, contextEnabled)
    [] SI.k = "fence" -> markAllObjectsTentative(store)
    [] SI.k = "call" ->
         IF SI.fn = "malloc" THEN markGoodBytes(store, SI.o, 0, MaxByte, contextEnabled)
         ELSE IF (SI.fn = "indirect" /\ ~singleThreaded) \/ SI.fn = "yieldfn"
         THEN IF SI.dom = "pess" THEN store
              ELSE IF SI.dom \in Objs THEN markAllObjectsTentative(store)
              ELSE markAllObjectsTentative(store)
         ELSE store
    [] OTHER -> store

\* Faulty variant: an allocation records nothing.
updateTLStoreAllocaUntracked(SI, contextEnabled, store, singleThreaded) ==
  CASE SI.k = "alloca" -> store
    [] SI.k = "load" ->
         IF (SI.vol \/ SI.ord) /\ ~SI.simple THEN markAllObjectsTentative(store)
         ELSE markGoodBytes(store, SI.o, SI.off, SI.off + SI.sz, contextEnabled)
    [] SI.k = "store" ->
         markGoodBytes(store, SI.o, SI.off, SI.off + SI.sz, contextEnabled)
    [] SI.k = "atomicrmw" /\ SI.ord ->
         IF SI.tl0 = "MustCheck" /\ ~SI.simple THEN markAllObjectsTentative(store)
         ELSE markGoodBytes(store, SI.o, SI.off, SI.off + SI.sz, contextEnabled)
    [] SI.k = "fence" -> markAllObjectsTentative(store)
    [] SI.k = "call" ->
         IF SI.fn = "malloc" THEN store
         ELSE IF (SI.fn = "indirect" /\ ~singleThreaded) \/ SI.fn = "yieldfn"
         THEN IF SI.dom = "pess" THEN store
              ELSE IF SI.dom \in Objs THEN [store EXCEPT !.st[SI.dom] = << >>]
              ELSE markAllObjectsTentative(store)
         ELSE store
    [] OTHER -> store

\* updateTLStore.
updateTLStore(SI, contextEnabled, store, singleThreaded) ==
  CASE SI.k = "alloca" ->
         markGoodBytes(store, SI.o, 0, MaxByte, contextEnabled)
    [] SI.k = "load" ->
         IF (SI.vol \/ SI.ord) /\ ~SI.simple THEN markAllObjectsTentative(store)
         ELSE markGoodBytes(store, SI.o, SI.off, SI.off + SI.sz, contextEnabled)
    [] SI.k = "store" ->
         markGoodBytes(store, SI.o, SI.off, SI.off + SI.sz, contextEnabled)
    [] SI.k = "atomicrmw" /\ SI.ord ->
         IF SI.tl0 = "MustCheck" /\ ~SI.simple THEN markAllObjectsTentative(store)
         ELSE markGoodBytes(store, SI.o, SI.off, SI.off + SI.sz, contextEnabled)
    [] SI.k = "fence" -> markAllObjectsTentative(store)
    [] SI.k = "call" ->
         IF SI.fn = "memset" \/ SI.fn = "read"
           THEN markGoodBytes(store, SI.o, SI.off, SI.off + SI.sz, contextEnabled)
         ELSE IF SI.fn = "memcpy"
           THEN walkCopyInst(store, SI.dom, SI.o, SI.off, SI.sz, contextEnabled)
         ELSE IF SI.fn = "malloc" THEN markGoodBytes(store, SI.o, 0, MaxByte, contextEnabled)
         ELSE IF (SI.fn = "indirect" /\ ~singleThreaded) \/ SI.fn = "yieldfn"
         THEN IF SI.dom = "pess" THEN store
              ELSE IF SI.dom \in Objs THEN [store EXCEPT !.st[SI.dom] = << >>]
              ELSE markAllObjectsTentative(store)
         ELSE store
    [] OTHER -> store

\* Faulty variant: the interval found need only hold the first byte read.
shouldCheckReadFirstByte(store, o, off, size) ==
  IF o = "null" THEN FALSE
  ELSE IF store.st[o] = NoStore THEN store.aoc
  ELSE LET M  == store.st[o]
           it == IMFind(M, off)
       IN ~(it <= Len(M) /\ M[it][1] <= off)

\* shouldCheckRead.
shouldCheckRead(store, o, off, size) ==
  IF o = "null" THEN FALSE
  ELSE IF store.st[o] = NoStore THEN store.aoc
  ELSE LET M  == store.st[o]
           it == IMFind(M, off)
       IN ~(it <= Len(M) /\ M[it][1] <= off /\ M[it][2] >= off + size)

\* ShadowInstruction::readsMemoryDirectly, for the instructions modelled.
readsMemoryDirectly(SI) == SI.k \in {"load", "atomicrmw"}

\* IntegrationAttempt::shouldCheckLoad.
\* Faulty variant: an atomic read-modify-write is classified as a load is.
shouldCheckLoadAtomicAsLoad(SI, store, singleThreaded) ==
  IF singleThreaded THEN "NeverCheck"
  ELSE IF readsMemoryDirectly(SI) /\ ~SI.known THEN "NeverCheck"
  ELSE IF SI.k = "load" /\ SI.ord THEN "MustCheck"
  ELSE IF SI.o = "none" THEN "NeverCheck"
  ELSE IF SI.o = "null" THEN "NeverCheck"
  ELSE IF shouldCheckRead(store, SI.o, SI.off, SI.sz) THEN "MustCheck"
  ELSE "NoCheck"

\* Faulty variant: the program's single-threaded mode is not looked at.
shouldCheckLoadAnyMode(SI, store, singleThreaded) ==
  IF readsMemoryDirectly(SI) /\ ~SI.known THEN "NeverCheck"
  ELSE IF SI.k = "load" THEN
    IF SI.ord THEN "MustCheck"
    ELSE IF SI.o = "none" THEN "NeverCheck"
    ELSE IF SI.o = "null" THEN "NeverCheck"
    ELSE IF shouldCheckRead(store, SI.o, SI.off, SI.sz) THEN "MustCheck"
    ELSE "NoCheck"
  ELSE "MustCheck"

shouldCheckLoad(SI, store, singleThreaded) ==
  IF singleThreaded THEN "NeverCheck"
  ELSE IF readsMemoryDirectly(SI) /\ ~SI.known THEN "NeverCheck"
  ELSE IF SI.k = "load" THEN
    IF SI.ord THEN "MustCheck"
    ELSE IF SI.o = "none" THEN "NeverCheck"
    ELSE IF SI.o = "null" THEN "NeverCheck"
    ELSE IF shouldCheckRead(store, SI.o, SI.off, SI.sz) THEN "MustCheck"
    ELSE "NoCheck"
  ELSE "MustCheck"

\* Faulty variant: the instructions of a check-suppressed context leave the
\* store as it is.
TLAnalyseInstructionEnabledOnly(SI, tl, store, commitDisabledHere, secondPass, singleThreaded) ==
  IF commitDisabledHere THEN [tl |-> tl, store |-> store]
  ELSE IF readsMemoryDirectly(SI) THEN
    IF secondPass /\ tl = "MustCheck" THEN [tl |-> tl, store |-> store]
    ELSE LET ntl == IF tl # "NeverCheck"
                    THEN shouldCheckLoad(SI, store, singleThreaded) ELSE tl
         IN [tl |-> ntl,
             store |-> updateTLStore([SI EXCEPT !.tl0 = ntl], TRUE, store, singleThreaded)]
  ELSE IF SI.k = "call" THEN
    [tl |-> tl,
     store |-> updateTLStore([SI EXCEPT !.tl0 = tl], TRUE, store, singleThreaded)]
  ELSE IF tl = "NeverCheck" THEN [tl |-> tl, store |-> store]
  ELSE [tl |-> tl,
        store |-> updateTLStore([SI EXCEPT !.tl0 = tl], TRUE, store, singleThreaded)]

\* Faulty variant: every visit classifies the instruction anew.
TLAnalyseInstructionAnew(SI, tl, store, commitDisabledHere, secondPass, singleThreaded) ==
  IF readsMemoryDirectly(SI) THEN
    LET ntl == shouldCheckLoad(SI, store, singleThreaded)
    IN [tl |-> ntl,
        store |-> updateTLStore([SI EXCEPT !.tl0 = ntl], ~commitDisabledHere, store,
                                singleThreaded)]
  ELSE IF SI.k = "call" THEN
    [tl |-> tl,
     store |-> updateTLStore([SI EXCEPT !.tl0 = tl], ~commitDisabledHere, store,
                             singleThreaded)]
  ELSE IF tl = "NeverCheck" THEN [tl |-> tl, store |-> store]
  ELSE [tl |-> tl,
        store |-> updateTLStore([SI EXCEPT !.tl0 = tl], ~commitDisabledHere, store,
                                singleThreaded)]

\* TLAnalyseInstruction: the classification and the store it leaves.
TLAnalyseInstruction(SI, tl, store, commitDisabledHere, secondPass, singleThreaded) ==
  IF readsMemoryDirectly(SI) THEN
    IF secondPass /\ tl = "MustCheck" THEN [tl |-> tl, store |-> store]
    ELSE LET ntl == IF tl # "NeverCheck"
                    THEN shouldCheckLoad(SI, store, singleThreaded) ELSE tl
         IN [tl |-> ntl,
             store |-> updateTLStore([SI EXCEPT !.tl0 = ntl], ~commitDisabledHere, store,
                                     singleThreaded)]
  ELSE IF SI.k = "call" THEN
    [tl |-> tl,
     store |-> updateTLStore([SI EXCEPT !.tl0 = tl], ~commitDisabledHere, store,
                             singleThreaded)]
  ELSE IF tl = "NeverCheck" THEN [tl |-> tl, store |-> store]
  ELSE [tl |-> tl,
        store |-> updateTLStore([SI EXCEPT !.tl0 = tl], ~commitDisabledHere, store,
                                singleThreaded)]

\* ------------------------------------------------------------------------
\* The dead-store prover (DSE.cpp).
\*
\* A pointer is [b |-> base object, off |-> constant offset]; base "?" is a
\* pointer with no known base and offset.  The candidate write W stores
\* wSize bytes (or UnknownSize) at wPtr; its base object, "A", is a stack
\* allocation of the root function or a heap allocation.
\*
\* A walked instruction is a record
\*   k   "store", "memset", "memcpy", "read", "load", "free", "call", "nop",
\*       or a terminator "br" / "ret"
\*   p   the pointer written (store, memset, memcpy, read), read (load) or
\*       freed
\*   q   the source pointer of a memcpy
\*   sz  the access size, or UnknownSize
\*   m   load: "yes" (replaced by a value that is available), "unavail"
\*       (replaced by a pointer that is not available from W's context),
\*       "no"; memcpy: "dead" (already an unused writer), "live"; call and
\*       free: "use" / "nouse" (whether the call may reference W's pointer)
\*   ex  the call has an inline attempt to enter
\*   ia  the function walked: "root" or "callee"
\* ------------------------------------------------------------------------

UnknownSize == -1

\* Object sizes of the prover model: writes are 1 .. MaxSize bytes long.
MaxSize == 2

Ptr(b, off) == [b |-> b, off |-> off]
NoPtr == Ptr("?", 0)

DInst(k, p, q, sz, m, ex) ==
  [k |-> k, p |-> p, q |-> q, sz |-> sz, m |-> m, ex |-> ex, ia |-> "root"]

\* getBaseAndConstantOffset / getBaseObject succeed on a pointer.
Resolves(p) == p.b # "?"

\* aliasSVs on two accesses: unresolved pointers may alias; different
\* objects do not; the same address must-aliases; otherwise the accesses
\* partially alias when their byte ranges overlap.
aliasSVs(p1, s1, p2, s2) ==
  IF ~Resolves(p1) \/ ~Resolves(p2) THEN "MayAlias"
  ELSE IF p1.b # p2.b THEN "NoAlias"
  ELSE IF p1.off = p2.off THEN "MustAlias"
  ELSE IF p1.off < p2.off
    THEN (IF s1 = UnknownSize \/ p1.off + s1 > p2.off THEN "PartialAlias" ELSE "NoAlias")
  ELSE (IF s2 = UnknownSize \/ p2.off + s2 > p1.off THEN "PartialAlias" ELSE "NoAlias")

\* GetDefinedRange: the bytes of the store, relative to its start, that the
\* write defines; Ok is false when there are none.
GetDefinedRange(StoreBase, StoreOffset, Size, WriteBase, WriteOffset, WriteSize) ==
  LET fd  == Max2(0, WriteOffset - StoreOffset)
      fnd == Min2(Size, WriteOffset + WriteSize - StoreOffset)
  IN IF StoreBase # WriteBase \/ fd >= fnd
     THEN [Ok |-> FALSE, FirstDef |-> 0, FirstNotDef |-> 0]
     ELSE [Ok |-> TRUE, FirstDef |-> fd, FirstNotDef |-> fnd]

\* The context of a write of unknown size: a null pointer.
NullCtx == << >>

\* The marking loop of DSEHandleWrite, from byte i (0-based) on: it stops at
\* the first byte outside the written range that is not yet dead.
RECURSIVE MarkLoop(_, _, _, _, _)
MarkLoop(deadBytes, i, FirstDef, FirstNotDef, Size) ==
  IF i >= Size THEN [Finished |-> TRUE, deadBytes |-> deadBytes]
  ELSE IF i >= FirstDef /\ i < FirstNotDef
    THEN MarkLoop([deadBytes EXCEPT ![i + 1] = TRUE], i + 1, FirstDef, FirstNotDef, Size)
  ELSE IF ~deadBytes[i + 1]
    THEN [Finished |-> FALSE, deadBytes |-> deadBytes]
  ELSE MarkLoop(deadBytes, i + 1, FirstDef, FirstNotDef, Size)

\* Faulty variant: the missing bitmap of a store of unknown size is not
\* looked at.
DSEHandleWriteNoBitmapCheck(Writer, WriteSize, StorePtr, Size, deadBytes) ==
  IF ~Resolves(Writer) THEN [Finished |-> FALSE, deadBytes |-> deadBytes]
  ELSE
    LET R  == aliasSVs(Writer, WriteSize, StorePtr, Size)
        dr == GetDefinedRange(StorePtr.b, StorePtr.off, Size, Writer.b, Writer.off, WriteSize)
        FirstDef == IF R \in {"MayAlias", "PartialAlias"} /\ dr.Ok THEN dr.FirstDef ELSE 0
        FirstNotDef ==
          IF R \in {"MayAlias", "PartialAlias"} THEN (IF dr.Ok THEN dr.FirstNotDef ELSE 0)
          ELSE IF R = "MustAlias" THEN Min2(WriteSize, Size)
          ELSE 0
    IN IF FirstDef # FirstNotDef
       THEN MarkLoop(deadBytes, 0, FirstDef, FirstNotDef, Size)
       ELSE [Finished |-> FALSE, deadBytes |-> deadBytes]

\* Faulty variant: a write that defines any byte of the store finishes it.
DSEHandleWriteAnyByte(Writer, WriteSize, StorePtr, Size, deadBytes) ==
  IF deadBytes = NullCtx THEN [Finished |-> FALSE, deadBytes |-> deadBytes]
  ELSE IF ~Resolves(Writer) THEN [Finished |-> FALSE, deadBytes |-> deadBytes]
  ELSE
    LET R  == aliasSVs(Writer, WriteSize, StorePtr, Size)
        dr == GetDefinedRange(StorePtr.b, StorePtr.off, Size, Writer.b, Writer.off, WriteSize)
        FirstDef == IF R \in {"MayAlias", "PartialAlias"} /\ dr.Ok THEN dr.FirstDef ELSE 0
        FirstNotDef ==
          IF R \in {"MayAlias", "PartialAlias"} THEN (IF dr.Ok THEN dr.FirstNotDef ELSE 0)
          ELSE IF R = "MustAlias" THEN Min2(WriteSize, Size)
          ELSE 0
    IN IF FirstDef # FirstNotDef
       THEN [Finished |-> TRUE,
             deadBytes |-> MarkLoop(deadBytes, 0, FirstDef, FirstNotDef, Size).deadBytes]
       ELSE [Finished |-> FALSE, deadBytes |-> deadBytes]

\* IntegrationAttempt::DSEHandleWrite: true when the write completes the
\* coverage of the store's bytes.
DSEHandleWrite(Writer, WriteSize, StorePtr, Size, deadBytes) ==
  IF deadBytes = NullCtx THEN [Finished |-> FALSE, deadBytes |-> deadBytes]
  ELSE IF ~Resolves(Writer) THEN [Finished |-> FALSE, deadBytes |-> deadBytes]
  ELSE
    LET R  == aliasSVs(Writer, WriteSize, StorePtr, Size)
        dr == GetDefinedRange(StorePtr.b, StorePtr.off, Size, Writer.b, Writer.off, WriteSize)
        FirstDef == IF R \in {"MayAlias", "PartialAlias"} /\ dr.Ok THEN dr.FirstDef ELSE 0
        FirstNotDef ==
          IF R \in {"MayAlias", "PartialAlias"} THEN (IF dr.Ok THEN dr.FirstNotDef ELSE 0)
          ELSE IF R = "MustAlias" THEN Min2(WriteSize, Size)
          ELSE 0
    IN IF FirstDef # FirstNotDef
       THEN MarkLoop(deadBytes, 0, FirstDef, FirstNotDef, Size)
       ELSE [Finished |-> FALSE, deadBytes |-> deadBytes]

\* Faulty variant: a free never ends a lifetime.
isLifetimeEndNoFree(AllocKind, I) ==
  AllocKind = "alloca" /\ I.k = "ret" /\ I.ia = "root"

\* IntegrationAttempt::isLifetimeEnd, called on the context walking I.
isLifetimeEnd(AllocKind, I) ==
  IF AllocKind = "alloca"
    THEN I.k = "ret" /\ I.ia = "root"
  ELSE IF AllocKind = "malloc"
    THEN I.k = "free" /\ Resolves(I.p) /\ I.p.b = "A"
  ELSE FALSE

WIR(res, bytes) == [res |-> res, deadBytes |-> bytes]

\* The result of a write's DSEHandleWrite as a walk result.
WriteResult(h) ==
  IF h.Finished THEN WIR("StopThisPath", h.deadBytes) ELSE WIR("Continue", h.deadBytes)

\* Faulty variant: only a load of exactly W's address stops the walk.
noteBytesWrittenByLoadExact(I, AllocKind, StorePtr, Size, writtenBytes) ==
  IF isLifetimeEnd(AllocKind, I) THEN WIR("StopThisPath", writtenBytes)
  ELSE IF I.k \in {"memset", "memcpy"} THEN
    IF I.k = "memcpy" /\ I.m # "dead" /\ aliasSVs(I.q, I.sz, StorePtr, Size) # "NoAlias"
      THEN WIR("StopWholeWalk", writtenBytes)
    ELSE IF I.sz # UnknownSize
      THEN WriteResult(DSEHandleWrite(I.p, I.sz, StorePtr, Size, writtenBytes))
    ELSE WIR("Continue", writtenBytes)
  ELSE IF I.k = "read" THEN
    WriteResult(DSEHandleWrite(I.p, I.sz, StorePtr, Size, writtenBytes))
  ELSE IF I.k = "load" THEN
    IF I.m = "yes" THEN WIR("Continue", writtenBytes)
    ELSE IF aliasSVs(I.p, I.sz, StorePtr, Size) = "MustAlias"
      THEN WIR("StopWholeWalk", writtenBytes)
    ELSE WIR("Continue", writtenBytes)
  ELSE IF I.k = "store" THEN
    WriteResult(DSEHandleWrite(I.p, I.sz, StorePtr, Size, writtenBytes))
  ELSE WIR("Continue", writtenBytes)

\* Faulty variant: a store never ends the path.
noteBytesWrittenByStoreGoesOn(I, AllocKind, StorePtr, Size, writtenBytes) ==
  IF isLifetimeEnd(AllocKind, I) THEN WIR("StopThisPath", writtenBytes)
  ELSE IF I.k \in {"memset", "memcpy"} THEN
    IF I.k = "memcpy" /\ I.m # "dead" /\ aliasSVs(I.q, I.sz, StorePtr, Size) # "NoAlias"
      THEN WIR("StopWholeWalk", writtenBytes)
    ELSE IF I.sz # UnknownSize
      THEN WriteResult(DSEHandleWrite(I.p, I.sz, StorePtr, Size, writtenBytes))
    ELSE WIR("Continue", writtenBytes)
  ELSE IF I.k = "read" THEN
    WriteResult(DSEHandleWrite(I.p, I.sz, StorePtr, Size, writtenBytes))
  ELSE IF I.k = "load" THEN
    IF I.m = "yes" THEN WIR("Continue", writtenBytes)
    ELSE IF aliasSVs(I.p, I.sz, StorePtr, Size) # "NoAlias"
      THEN WIR("StopWholeWalk", writtenBytes)
    ELSE WIR("Continue", writtenBytes)
  ELSE IF I.k = "store" THEN
    WIR("Continue", DSEHandleWrite(I.p, I.sz, StorePtr, Size, writtenBytes).deadBytes)
  ELSE WIR("Continue", writtenBytes)

\* IntegrationAttempt::noteBytesWrittenBy.
noteBytesWrittenBy(I, AllocKind, StorePtr, Size, writtenBytes) ==
  IF isLifetimeEnd(AllocKind, I) THEN WIR("StopThisPath", writtenBytes)
  ELSE IF I.k \in {"memset", "memcpy"} THEN
    IF I.k = "memcpy" /\ I.m # "dead" /\ aliasSVs(I.q, I.sz, StorePtr, Size) # "NoAlias"
      THEN WIR("StopWholeWalk", writtenBytes)
    ELSE IF I.sz # UnknownSize
      THEN WriteResult(DSEHandleWrite(I.p, I.sz, StorePtr, Size, writtenBytes))
    ELSE WIR("Continue", writtenBytes)
  ELSE IF I.k = "read" THEN
    WriteResult(DSEHandleWrite(I.p, I.sz, StorePtr, Size, writtenBytes))
  ELSE IF I.k = "load" THEN
    IF I.m = "yes" THEN WIR("Continue", writtenBytes)
    ELSE IF aliasSVs(I.p, I.sz, StorePtr, Size) # "NoAlias"
      THEN WIR("StopWholeWalk", writtenBytes)
    ELSE WIR("Continue", writtenBytes)
  ELSE IF I.k = "store" THEN
    WriteResult(DSEHandleWrite(I.p, I.sz, StorePtr, Size, writtenBytes))
  ELSE WIR("Continue", writtenBytes)

\* Faulty variant: a reading instruction stops the walk without marking
\* the write used.
walkInstructionNoUse(I, AllocKind, StorePtr, Size, Ctx, used) ==
  LET Res == noteBytesWrittenBy(I, AllocKind, StorePtr, Size, Ctx)
  IN [res |-> Res.res, deadBytes |-> Res.deadBytes, writeUsed |-> used]

\* WriterUsedWalker::walkInstruction: the walk result and writeUsed.
walkInstruction(I, AllocKind, StorePtr, Size, Ctx, used) ==
  LET Res == noteBytesWrittenBy(I, AllocKind, StorePtr, Size, Ctx)
  IN [res |-> Res.res, deadBytes |-> Res.deadBytes,
      writeUsed |-> (used \/ Res.res = "StopWholeWalk")]

\* Faulty variant: every call is entered, whatever the effect query says.
shouldEnterCallAlways(CI) == TRUE

\* WriterUsedWalker::shouldEnterCall, by IntegrationAttempt::callUsesPtr.
shouldEnterCall(CI) == CI.m = "use"

\* Faulty variant: the call is passed over.
blockedByUnexpandedCallSkip(used) == [writeUsed |-> used, blocked |-> FALSE]

\* WriterUsedWalker::blockedByUnexpandedCall: the write counts as used and
\* the walk is given up.
blockedByUnexpandedCall(used) == [writeUsed |-> TRUE, blocked |-> TRUE]

\* ------------------------------------------------------------------------
\* What a path of the forward search has met, judged on the bytes the
\* instructions touch and independently of the prover's own decisions.
\*   n        instructions walked since W (2: two or more)
\*   first    the first one: "partial" (a store to part of W's bytes),
\*            "cover" (a store that must-aliases W and covers it), "end"
\*            (the end of the object's lifetime) or "other"
\*   cover    a must-aliasing covering store was met before any read
\*   read     a read that may touch W's bytes was met
\*   deadcopy a memory copy already marked an unused writer, whose source
\*            may touch W's bytes, was met
\*   blocked  a call that may reference W's pointer and has no inline
\*            attempt was met
\*   end      the end of the lifetime of W's object was met
\*   wr       the bytes of W (0-based) that writes to known addresses covered
\* ------------------------------------------------------------------------

NoDInst == DInst("none", NoPtr, NoPtr, 0, "", FALSE)

NothingSeen ==
  [n |-> 0, first |-> "none", cover |-> FALSE, read |-> FALSE, deadcopy |-> FALSE,
   blocked |-> FALSE, end |-> FALSE, wr |-> {}]

\* The bytes, relative to W's first byte, that I writes at a known address
\* of W's object.
WrittenOfW(I, StorePtr, Size) ==
  IF I.k \in {"store", "read", "memset", "memcpy"} /\ Resolves(I.p) /\ Resolves(StorePtr)
     /\ I.p.b = StorePtr.b /\ I.sz # UnknownSize /\ Size # UnknownSize
  THEN { i \in 0 .. (Size - 1) :
           I.p.off <= StorePtr.off + i /\ StorePtr.off + i < I.p.off + I.sz }
  ELSE {}

\* An access of sz bytes at pp that cannot be shown disjoint from W.
MayTouchW(pp, sz, StorePtr, Size) ==
  \/ ~Resolves(pp)
  \/ /\ pp.b = StorePtr.b
     /\ (Size = UnknownSize \/ pp.off < StorePtr.off + Size)
     /\ (sz = UnknownSize \/ StorePtr.off < pp.off + sz)

ReadsW(I, StorePtr, Size) ==
  \/ I.k = "load" /\ I.m # "yes" /\ MayTouchW(I.p, I.sz, StorePtr, Size)
  \/ I.k = "memcpy" /\ I.m = "live" /\ MayTouchW(I.q, I.sz, StorePtr, Size)

EndsLifetimeOfW(I, AllocKind) ==
  \/ AllocKind = "alloca" /\ I.k = "ret" /\ I.ia = "root"
  \/ AllocKind = "malloc" /\ I.k = "free" /\ I.p.b = "A"

IsBlockedCall(I, AllocKind) ==
  I.k \in {"call", "free"} /\ I.m = "use" /\ ~I.ex /\ ~EndsLifetimeOfW(I, AllocKind)

CoveringStore(I, StorePtr, Size) ==
  I.k = "store" /\ Size # UnknownSize /\ I.p = StorePtr /\ I.sz >= Size

PartialStore(I, StorePtr, Size) ==
  /\ I.k = "store"
  /\ WrittenOfW(I, StorePtr, Size) # {}
  /\ WrittenOfW(I, StorePtr, Size) # 0 .. (Size - 1)

Saw(sn, I, AllocKind, StorePtr, Size) ==
  [n       |-> IF sn.n = 0 THEN 1 ELSE 2,
   first   |-> IF sn.n > 0 THEN sn.first
               ELSE IF EndsLifetimeOfW(I, AllocKind) THEN "end"
               ELSE IF CoveringStore(I, StorePtr, Size) THEN "cover"
               ELSE IF PartialStore(I, StorePtr, Size) THEN "partial"
               ELSE "other",
   cover   |-> (sn.cover \/ (CoveringStore(I, StorePtr, Size) /\ ~sn.read /\ ~sn.blocked)),
   read    |-> (sn.read \/ ReadsW(I, StorePtr, Size)),
   deadcopy |-> (sn.deadcopy \/ (I.k = "memcpy" /\ I.m = "dead"
                                  /\ MayTouchW(I.q, I.sz, StorePtr, Size))),
   blocked |-> (sn.blocked \/ IsBlockedCall(I, AllocKind)),
   end     |-> (sn.end \/ EndsLifetimeOfW(I, AllocKind)),
   wr      |-> sn.wr \cup WrittenOfW(I, StorePtr, Size)]

\* ------------------------------------------------------------------------
\* State
\* ------------------------------------------------------------------------

VARIABLES
  incoming,   \* merge: the stores the merger has visited, in visiting order
  newMap,     \* merge: TLMerger::newMap once the merge ran
  mpc,        \* merge: "collect", "merged" or "noreturn" ("idle": unused)
  prog,       \* walk: the instruction of each block, NoInst until visited
  succsAlive, \* walk: which of the edges 1->3, 2->1, 2->3 are live
  commitDisabledHere,     \* walk: the context is check-suppressed
  programSingleThreaded,  \* walk: GlobalIHP->programSingleThreaded
  tlStore,    \* walk: BB->tlStore of each block
  isThreadLocal,          \* walk: the classification of each block's instruction
  readsTentativeData,     \* walk: the context's flag
  tpc,        \* walk: where the walk stands
  secondPass, \* walk: the secondPass argument of the running loop walk
  latchToHeader,          \* walk: the latchToHeader argument of that walk
  headerIn,   \* walk: the store the header started from in pass 1 and 2
  firstPassTL,\* walk: the classifications when the first pass ended
  wKind,      \* prover: the allocation W writes to, "alloca" or "malloc"
  wPtr,       \* prover: W's pointer operand
  wSize,      \* prover: W's size, or UnknownSize
  liveSuccs,  \* prover: the number of live successors of W's block
  dpc,        \* prover: "start", "walk", "walked", "done" or "offtree"
  pos,        \* prover: the walker's position [blk, idx, ia]
  ctx,        \* prover: the context (bitmap) of the path being walked
  pending,    \* prover: the queued paths [blk, ctx, hist]
  writeUsed,  \* prover: WriterUsedWalker::writeUsed
  unusedWriter,           \* prover: W's INSTSTATUS_UNUSED_WRITER bit
  result,     \* prover: what tryKillWriterTo returned
  seen,       \* prover: what this path has met since W (see Saw)
  last,       \* prover: the instruction walked last
  pathLog,    \* prover: the paths that ended, [how, seen, bits, blk]
  insts,      \* block: the instructions of the block walked, in order
  tlOf,       \* block: the isThreadLocal of each of them
  tlFirst,    \* block: what the first pass left in isThreadLocal
  before,     \* block: BB->tlStore before each instruction, in this pass
  after,      \* block: BB->tlStore after each instruction, in this pass
  cur,        \* block: BB->tlStore now
  bpc,        \* block: "first" or "second" pass ("idle": unused)
  cfg,        \* tree walk: the call/loop tree walked (see WalkConfigs)
  heap,       \* tree walk: every snapshot created, [rc, s, depth]
  tlStoreOf,  \* tree walk: BB->tlStore of each block, NullStore if none
  wpc,        \* tree walk: the step of Schedule(cfg) to run next (0: unused)
  faults,     \* tree walk: uses of freed snapshots seen so far
  visits,     \* tree walk: how often each block's instructions were walked
  wtl,        \* tree walk: isThreadLocal of each block's instruction
  rstores,    \* ranges: two snapshots, <<s1, s2>>
  rop,        \* ranges: the operation that ran last
  qin,        \* query: the arguments and the global flag of the query
  qout,       \* query: what it returned ("none": not yet asked)
  kill,       \* transfers: the tryKillAllMTIs run (see KillInit)
  ld,         \* load: one shouldCheckLoadFrom call (see LoadInit)
  tally,      \* count: one countTentativeInstructions run (see CountInit)
  join        \* join: two predecessors and their join block (see JoinInit)

mvars == <<incoming, newMap, mpc>>

tvars == <<prog, succsAlive, commitDisabledHere, programSingleThreaded, tlStore,
           isThreadLocal, readsTentativeData, tpc, secondPass, latchToHeader,
           headerIn, firstPassTL>>

dvars == <<wKind, wPtr, wSize, liveSuccs, dpc, pos, ctx, pending, writeUsed,
           unusedWriter, result, seen, last, pathLog>>

bvars == <<insts, tlOf, tlFirst, before, after, cur, bpc>>

wvars == <<cfg, heap, tlStoreOf, wpc, faults, visits, wtl>>

rvars == <<rstores, rop>>

qvars == <<qin, qout>>

kvars == <<kill, ld, tally, join>>

xvars == <<wvars, rvars, qvars, kvars>>

\* The state of the merger, loop walk, prover and block walk together.
ovars == <<mvars, tvars, dvars, bvars>>

vars == <<incoming, newMap, mpc, prog, succsAlive, commitDisabledHere,
          programSingleThreaded, tlStore, isThreadLocal, readsTentativeData, tpc,
          secondPass, latchToHeader, headerIn, firstPassTL,
          wKind, wPtr, wSize, liveSuccs, dpc, pos, ctx, pending, writeUsed,
          unusedWriter, result, seen, last, pathLog,
          insts, tlOf, tlFirst, before, after, cur, bpc,
          cfg, heap, tlStoreOf, wpc, faults, visits, wtl,
          rstores, rop, qin, qout, kill, ld, tally, join>>

\* ------------------------------------------------------------------------
\* The function the walk runs over: block 0 is the entry block and the
\* loop's preheader, 1 the header, 2 the latch, 3 the exit (return) block of
\* a loop that is not peeled.  Edges 0->1 and 1->2 are live; 1->3, 2->1 and
\* 2->3 may be dead.  Every block holds one instruction.
\* ------------------------------------------------------------------------

Preheader == 0
Header == 1
Latch == 2
ExitBlock == 3
Blocks == {Preheader, Header, Latch, ExitBlock}

Inst(k, o, off, sz, fn, dom) ==
  [k |-> k, o |-> o, off |-> off, sz |-> sz, fn |-> fn, dom |-> dom,
   ord |-> FALSE, vol |-> FALSE, simple |-> FALSE, known |-> TRUE, tl0 |-> "MustCheck"]

NoInst == Inst("unset", "none", 0, 0, "", "")

LoopInsts ==
  { Inst("nop", "none", 0, 0, "", ""),
    Inst("load", "X", 0, 1, "", ""),
    Inst("store", "X", 0, 1, "", ""),
    Inst("load", "G", 0, 1, "", ""),
    Inst("call", "none", 0, 0, "indirect", "all"),
    Inst("call", "none", 0, 0, "yieldfn", "G") }

AllClobbered == [aoc |-> TRUE, st |-> [o \in Objs |-> NoStore]]

\* The stores the function may be entered with: the root's empty store, or
\* what a caller hands over after a yield point.
EntryStores ==
  { EmptyStore, AllClobbered,
    [AllClobbered EXCEPT !.st["X"] = << <<0, 1>> >>] }

EdgeConfigs ==
  { e \in [{"1to3", "2to1", "2to3"} -> BOOLEAN] :
      (e["1to3"] \/ e["2to3"]) /\ (e["2to1"] \/ e["2to3"]) }

MergeIdle ==
  /\ incoming = << >>
  /\ newMap = EmptyStore
  /\ mpc = "idle"

TLIdle ==
  /\ prog = [b \in Blocks |-> NoInst]
  /\ succsAlive = [e \in {"1to3", "2to1", "2to3"} |-> TRUE]
  /\ commitDisabledHere = FALSE
  /\ programSingleThreaded = FALSE
  /\ tlStore = [b \in Blocks |-> EmptyStore]
  /\ isThreadLocal = [b \in Blocks |-> "MustCheck"]
  /\ readsTentativeData = FALSE
  /\ tpc = "idle"
  /\ secondPass = FALSE
  /\ latchToHeader = FALSE
  /\ headerIn = <<EmptyStore, EmptyStore>>
  /\ firstPassTL = [b \in Blocks |-> "MustCheck"]

BlockIdle ==
  /\ insts = << >>
  /\ tlOf = << >>
  /\ tlFirst = << >>
  /\ before = << >>
  /\ after = << >>
  /\ cur = EmptyStore
  /\ bpc = "idle"

WalkIdle ==
  /\ cfg = [main |-> FALSE]
  /\ heap = << >>
  /\ tlStoreOf = << >>
  /\ wpc = 0
  /\ faults = {}
  /\ visits = << >>
  /\ wtl = << >>

RangeIdle ==
  /\ rstores = << >>
  /\ rop = [op |-> "idle"]

QueryIdle ==
  /\ qin = [omitChecks |-> FALSE]
  /\ qout = "none"

KillIdle == kill = [pc |-> "idle"]

LoadIdle == ld = [pc |-> "idle"]

CountIdle == tally = [pc |-> "idle"]

JoinIdle == join = [pc |-> "idle"]

KIdle == KillIdle /\ LoadIdle /\ CountIdle /\ JoinIdle

XIdle == WalkIdle /\ RangeIdle /\ QueryIdle /\ KIdle

DSEIdle ==
  /\ wKind = "alloca"
  /\ wPtr = NoPtr
  /\ wSize = UnknownSize
  /\ liveSuccs = 1
  /\ dpc = "idle"
  /\ pos = [blk |-> 0, idx |-> 1, ia |-> "root"]
  /\ ctx = NullCtx
  /\ pending = << >>
  /\ writeUsed = FALSE
  /\ unusedWriter = FALSE
  /\ result = FALSE
  /\ seen = NothingSeen
  /\ last = NoDInst
  /\ pathLog = << >>

\* ------------------------------------------------------------------------
\* SpecMerge: a merger visits up to MaxPreds incoming stores, then merges.
\* ------------------------------------------------------------------------

FullMap == << <<0, MaxByte>> >>

\* The stores a block can hold.  allOthersClobbered is never reset and
\* markGoodBytes adds nothing while it is false, so a store with the flag
\* false lists at most emptied objects.
MergeInputs ==
  { [aoc |-> TRUE, st |-> [o \in Objs |-> IF o = "X" THEN x ELSE NoStore]] :
      x \in AllMaps \cup {NoStore} }
  \cup
  { [aoc |-> TRUE, st |-> [o \in Objs |-> IF o = "X" THEN NoStore ELSE FullMap]] }
  \cup
  { [aoc |-> FALSE, st |-> [o \in Objs |-> IF o = "X" THEN x ELSE g]] :
      x \in {NoStore, << >>}, g \in {NoStore, << >>} }

MergeInit ==
  /\ incoming = << >>
  /\ newMap = EmptyStore
  /\ mpc = "collect"
  /\ TLIdle
  /\ DSEIdle
  /\ BlockIdle
  /\ XIdle

\* TLMerger::visit: one more live predecessor or return block.
Visit(s) ==
  /\ mpc = "collect"
  /\ Len(incoming) < MaxPreds
  /\ incoming' = Append(incoming, s)
  /\ UNCHANGED <<newMap, mpc>>
  /\ UNCHANGED <<tvars, dvars, bvars, xvars>>

\* doTLStoreMerge on a block with at least one live predecessor.
StoreMerge ==
  /\ mpc = "collect"
  /\ Len(incoming) >= 1
  /\ newMap' = doTLStoreMerge(incoming)
  /\ mpc' = "merged"
  /\ UNCHANGED incoming
  /\ UNCHANGED <<tvars, dvars, bvars, xvars>>

\* doTLCallMerge after a call: no live return block leaves no store.
CallMerge ==
  /\ mpc = "collect"
  /\ IF Len(incoming) >= 1
       THEN newMap' = doTLCallMerge(incoming) /\ mpc' = "merged"
       ELSE mpc' = "noreturn" /\ UNCHANGED newMap
  /\ UNCHANGED incoming
  /\ UNCHANGED <<tvars, dvars, bvars, xvars>>

MergeNext ==
  \/ \E s \in MergeInputs : Visit(s)
  \/ StoreMerge
  \/ CallMerge

SpecMerge == MergeInit /\ [][MergeNext]_vars

\* ------------------------------------------------------------------------
\* Properties of the merge
\* ------------------------------------------------------------------------

\* C1: every byte of every object that the merged store trusts is trusted
\* by each incoming store; per object the merged trusted bytes are exactly
\* the intersection of the incoming ones.
MergeSoundness ==
  mpc = "merged" =>
    \A o \in Objs :
      Trusted(newMap, o) =
        { b \in Bytes : \A i \in 1 .. Len(incoming) : b \in Trusted(incoming[i], o) }

\* A merge of at least two stores that disagree on some byte happened.
MergeSoundnessWitness ==
  /\ mpc = "merged"
  /\ Len(incoming) >= 2
  /\ \E o \in Objs : Trusted(incoming[1], o) # Trusted(incoming[2], o)
  /\ \E o \in Objs : Trusted(newMap, o) # {}

\* The incoming stores with those at positions i and j exchanged.
Swapped(i, j) ==
  [k \in 1 .. Len(incoming) |->
     IF k = i THEN incoming[j] ELSE IF k = j THEN incoming[i] ELSE incoming[k]]

\* C2: merge is idempotent, commutative and associative on the incoming
\* stores (taken from the front of the sequence, which ranges over all
\* tuples of stores), and the merged store is the same when any two
\* incoming stores change places, hence for every permutation of them.
MergeAlgebra ==
  mpc = "merged" =>
    /\ SameTrust(MergeTwo(incoming[1], incoming[1]), incoming[1])
    /\ Len(incoming) >= 2 =>
         SameTrust(MergeTwo(incoming[1], incoming[2]), MergeTwo(incoming[2], incoming[1]))
    /\ Len(incoming) >= 3 =>
         SameTrust(MergeTwo(MergeTwo(incoming[1], incoming[2]), incoming[3]),
                   MergeTwo(incoming[1], MergeTwo(incoming[2], incoming[3])))
    /\ \A i, j \in 1 .. Len(incoming) :
         i < j => SameTrust(doMerge(Swapped(i, j)), newMap)

\* Three pairwise different stores with partly overlapping trust merged.
MergeAlgebraWitness ==
  /\ mpc = "merged"
  /\ Len(incoming) = 3
  /\ ~SameTrust(incoming[1], incoming[2])
  /\ ~SameTrust(incoming[2], incoming[3])
  /\ ~SameTrust(incoming[1], incoming[3])
  /\ Len(incoming[1].st["X"]) = 2
  /\ Trusted(newMap, "X") # {}

TLInit ==
  /\ MergeIdle
  /\ DSEIdle
  /\ BlockIdle
  /\ XIdle
  /\ prog = [b \in Blocks |-> NoInst]
  /\ succsAlive \in EdgeConfigs
  /\ commitDisabledHere \in BOOLEAN
  /\ programSingleThreaded \in BOOLEAN
  /\ tlStore \in { [b \in Blocks |-> IF b = Preheader THEN s ELSE EmptyStore] :
                     s \in EntryStores }
  /\ isThreadLocal = [b \in Blocks |-> "MustCheck"]
  /\ readsTentativeData = FALSE
  /\ tpc = "pre"
  /\ secondPass = FALSE
  /\ latchToHeader = FALSE
  /\ headerIn = <<EmptyStore, EmptyStore>>
  /\ firstPassTL = [b \in Blocks |-> "MustCheck"]

\* The body of the block loop of findTentativeLoadsInLoop for block b holding
\* instruction ins and starting from store `start`.
AnalyseBlock(b, ins, start) ==
  LET tl0 == IF prog[b] = NoInst THEN ins.tl0 ELSE isThreadLocal[b]
      r   == TLAnalyseInstruction(ins, tl0, start, commitDisabledHere,
                                  secondPass, programSingleThreaded)
  IN /\ prog' = [prog EXCEPT ![b] = ins]
     /\ isThreadLocal' = [isThreadLocal EXCEPT ![b] = r.tl]
     /\ tlStore' = [tlStore EXCEPT ![b] = r.store]
     /\ readsTentativeData' =
          (readsTentativeData \/ (readsMemoryDirectly(ins) /\ r.tl = "MustCheck"
                                   /\ ~(secondPass /\ tl0 = "MustCheck")))

\* The instruction of block b: chosen on the first visit, fixed afterwards.
InstOf(b, ins) == ins \in LoopInsts /\ (prog[b] = NoInst \/ prog[b] = ins)

\* Block 0, the start block of the function walk: no merge.
WalkPreheader ==
  /\ tpc = "pre"
  /\ \E ins \in LoopInsts :
       InstOf(Preheader, ins) /\ AnalyseBlock(Preheader, ins, tlStore[Preheader])
  /\ tpc' = "enter"
  /\ UNCHANGED <<succsAlive, commitDisabledHere, programSingleThreaded, secondPass,
                 latchToHeader, headerIn, firstPassTL>>
  /\ UNCHANGED <<mvars, dvars, bvars, xvars>>

\* findTentativeLoadsInUnboundedLoop up to its first walk of the loop: the
\* header is given the preheader's store; with a live latch->header edge
\* the first walk hands the store from the latch to the header only.
EnterUnboundedLoop ==
  /\ tpc = "enter"
  /\ tlStore' = [tlStore EXCEPT ![Header] = tlStore[Preheader]]
  /\ headerIn' = <<tlStore[Preheader], tlStore[Preheader]>>
  /\ latchToHeader' = succsAlive["2to1"]
  /\ tpc' = "hdr"
  /\ UNCHANGED <<prog, succsAlive, commitDisabledHere, programSingleThreaded,
                 isThreadLocal, readsTentativeData, secondPass, firstPassTL>>
  /\ UNCHANGED <<mvars, dvars, bvars, xvars>>

\* The header is the start block of a loop walk: no merge.
WalkHeader ==
  /\ tpc = "hdr"
  /\ \E ins \in LoopInsts :
       InstOf(Header, ins) /\ AnalyseBlock(Header, ins, tlStore[Header])
  /\ tpc' = "latch"
  /\ UNCHANGED <<succsAlive, commitDisabledHere, programSingleThreaded, secondPass,
                 latchToHeader, headerIn, firstPassTL>>
  /\ UNCHANGED <<mvars, dvars, bvars, xvars>>

\* The latch: its store is merged from its one predecessor, the header.
WalkLatch ==
  /\ tpc = "latch"
  /\ \E ins \in LoopInsts :
       InstOf(Latch, ins) /\ AnalyseBlock(Latch, ins, doTLStoreMerge(<<tlStore[Header]>>))
  /\ tpc' = IF latchToHeader THEN "second" ELSE "exit"
  /\ UNCHANGED <<succsAlive, commitDisabledHere, programSingleThreaded, secondPass,
                 latchToHeader, headerIn, firstPassTL>>
  /\ UNCHANGED <<mvars, dvars, bvars, xvars>>

\* findTentativeLoadsInUnboundedLoop between the two walks: the header's
\* store becomes the latch's, and the loop is walked again as second pass.
StartSecondPass ==
  /\ tpc = "second"
  /\ tlStore' = [tlStore EXCEPT ![Header] = tlStore[Latch]]
  /\ headerIn' = <<headerIn[1], tlStore[Latch]>>
  /\ firstPassTL' = isThreadLocal
  /\ secondPass' = TRUE
  /\ latchToHeader' = FALSE
  /\ tpc' = "hdr"
  /\ UNCHANGED <<prog, succsAlive, commitDisabledHere, programSingleThreaded,
                 isThreadLocal, readsTentativeData>>
  /\ UNCHANGED <<mvars, dvars, bvars, xvars>>

\* The live predecessors of the exit block, in predecessor order.
ExitPreds ==
  (IF succsAlive["1to3"] THEN <<tlStore[Header]>> ELSE << >>) \o
  (IF succsAlive["2to3"] THEN <<tlStore[Latch]>> ELSE << >>)

\* The exit block, back in the function's own walk (secondPass as the
\* function was entered: false).
WalkExit ==
  /\ tpc = "exit"
  /\ secondPass' = FALSE
  /\ \E ins \in LoopInsts :
       /\ InstOf(ExitBlock, ins)
       /\ LET r == TLAnalyseInstruction(ins, ins.tl0, doTLStoreMerge(ExitPreds),
                                        commitDisabledHere, FALSE, programSingleThreaded)
          IN /\ prog' = [prog EXCEPT ![ExitBlock] = ins]
             /\ isThreadLocal' = [isThreadLocal EXCEPT ![ExitBlock] = r.tl]
             /\ tlStore' = [tlStore EXCEPT ![ExitBlock] = r.store]
             /\ readsTentativeData' =
                  (readsTentativeData \/ (readsMemoryDirectly(ins) /\ r.tl = "MustCheck"))
  /\ tpc' = "done"
  /\ UNCHANGED <<succsAlive, commitDisabledHere, programSingleThreaded,
                 latchToHeader, headerIn, firstPassTL>>
  /\ UNCHANGED <<mvars, dvars, bvars, xvars>>

TLNext ==
  \/ WalkPreheader
  \/ EnterUnboundedLoop
  \/ WalkHeader
  \/ WalkLatch
  \/ StartSecondPass
  \/ WalkExit

SpecTL == TLInit /\ [][TLNext]_vars

\* ------------------------------------------------------------------------
\* Properties of the two-phase loop walk
\* ------------------------------------------------------------------------

Tentative(s, o) == Bytes \ Trusted(s, o)

\* The store the exit block starts from.
ExitIn == doTLStoreMerge(ExitPreds)

\* Loop trips followed when enumerating the ways of reaching a block.
MaxTrips == 2

\* What executing block b does to the trust in store s.
BlockEffect(b, s) ==
  updateTLStore(prog[b], ~commitDisabledHere, s, programSingleThreaded)

\* The trust on arriving at the header for the k-th time: from the
\* preheader (k = 0), or over the back edge after k trips.
RECURSIVE ArriveAtHeader(_)
ArriveAtHeader(k) ==
  IF k = 0 THEN headerIn[1]
  ELSE BlockEffect(Latch, BlockEffect(Header, ArriveAtHeader(k - 1)))

\* C4: with a live latch->header edge, a byte trusted at the header in
\* phase 2, or at the exit block after the walk, is trusted on every way of
\* reaching that point: from the preheader and over the back edge.
TwoPhaseLoopSound ==
  (tpc = "done" /\ succsAlive["2to1"]) =>
    \A o \in Objs : \A k \in 0 .. MaxTrips :
      /\ Trusted(headerIn[2], o) \subseteq Trusted(ArriveAtHeader(k), o)
      /\ succsAlive["1to3"] =>
           Trusted(ExitIn, o) \subseteq
             Trusted(BlockEffect(Header, ArriveAtHeader(k)), o)
      /\ succsAlive["2to3"] =>
           Trusted(ExitIn, o) \subseteq
             Trusted(BlockEffect(Latch, BlockEffect(Header, ArriveAtHeader(k))), o)

\* C5: the tentative bytes at the header after phase 2 include the
\* tentative bytes at the header in phase 1.
LoopFixedPointMonotone ==
  (tpc = "done" /\ succsAlive["2to1"]) =>
    \A o \in Objs : Tentative(headerIn[1], o) \subseteq Tentative(headerIn[2], o)

\* ------------------------------------------------------------------------
\* SpecBlock: findTentativeLoadsInLoop over one block of up to MaxInsts
\* instructions, chosen as the first pass reaches them.  The block may be
\* the whole body of a loop that is not peeled (header and latch at once):
\* findTentativeLoadsInUnboundedLoop then hands the store the first pass
\* left back to the block and walks it again as second pass.
\* ------------------------------------------------------------------------

MaxInsts == 3

LoadX == Inst("load", "X", 0, 1, "", "")
LoadG == Inst("load", "G", 0, 1, "", "")
OrderedLoadG == [LoadG EXCEPT !.ord = TRUE]
VolatileLoadG == [LoadG EXCEPT !.vol = TRUE]
StoreG == Inst("store", "G", 0, 1, "", "")
Fence == Inst("fence", "none", 0, 0, "", "")
OpaqueCall == Inst("call", "none", 0, 0, "indirect", "all")
DomainCall == Inst("call", "none", 0, 0, "yieldfn", "G")
PessimisticCall == Inst("call", "none", 0, 0, "yieldfn", "pess")
AllocaX == Inst("alloca", "X", 0, MaxByte, "", "")
MallocX == Inst("call", "X", 0, MaxByte, "malloc", "")
AtomicRMWG == [Inst("atomicrmw", "G", 0, 1, "", "") EXCEPT !.ord = TRUE]
AtomicRMWUnknownG == [AtomicRMWG EXCEPT !.known = FALSE]

BlockInsts ==
  { LoadX, LoadG, OrderedLoadG, VolatileLoadG, StoreG, Fence, OpaqueCall, DomainCall,
    PessimisticCall, AllocaX, MallocX, AtomicRMWG, AtomicRMWUnknownG }

\* The stores the block may start from: the root's, one after a yield
\* point, one with trusted bytes, one whose G a lock domain emptied before
\* anything was clobbered.
BlockEntryStores ==
  { EmptyStore, AllClobbered,
    [aoc |-> TRUE, st |-> [o \in Objs |-> IF o = "X" THEN << <<0, 1>> >> ELSE FullMap]],
    [EmptyStore EXCEPT !.st["G"] = << >>] }

\* The store the first pass entered the block with (while it runs).
EntryStore == IF before = << >> THEN cur ELSE before[1]

\* An allocation returns an object nothing has named before.
IsAllocation(SI) == SI.k = "alloca" \/ (SI.k = "call" /\ SI.fn = "malloc")

MayFollow(SI) ==
  IsAllocation(SI) =>
    /\ EntryStore.st[SI.o] = NoStore
    /\ \A i \in 1 .. Len(insts) : insts[i].o # SI.o

BlockInit ==
  /\ MergeIdle
  /\ DSEIdle
  /\ XIdle
  /\ prog = [b \in Blocks |-> NoInst]
  /\ succsAlive = [e \in {"1to3", "2to1", "2to3"} |-> TRUE]
  /\ commitDisabledHere \in BOOLEAN
  /\ programSingleThreaded \in BOOLEAN
  /\ tlStore = [b \in Blocks |-> EmptyStore]
  /\ isThreadLocal = [b \in Blocks |-> "MustCheck"]
  /\ readsTentativeData = FALSE
  /\ tpc = "idle"
  /\ secondPass = FALSE
  /\ latchToHeader = FALSE
  /\ headerIn = <<EmptyStore, EmptyStore>>
  /\ firstPassTL = [b \in Blocks |-> "MustCheck"]
  /\ insts = << >>
  /\ tlOf = << >>
  /\ tlFirst = << >>
  /\ before = << >>
  /\ after = << >>
  /\ cur \in BlockEntryStores
  /\ bpc = "first"

\* The loop over the block's instructions, first pass: the next
\* instruction.
AnalyseFrom(kinds) ==
  /\ bpc = "first"
  /\ Len(insts) < MaxInsts
  /\ \E SI \in kinds :
       /\ MayFollow(SI)
       /\ LET r == TLAnalyseInstruction(SI, SI.tl0, cur, commitDisabledHere, FALSE,
                                        programSingleThreaded)
          IN /\ insts' = Append(insts, SI)
             /\ tlOf' = Append(tlOf, r.tl)
             /\ before' = Append(before, cur)
             /\ after' = Append(after, r.store)
             /\ cur' = r.store
             /\ readsTentativeData' =
                  (readsTentativeData \/ (readsMemoryDirectly(SI) /\ r.tl = "MustCheck"))
  /\ UNCHANGED <<prog, succsAlive, commitDisabledHere, programSingleThreaded, tlStore,
                 isThreadLocal, tpc, secondPass, latchToHeader, headerIn, firstPassTL,
                 tlFirst, bpc>>
  /\ UNCHANGED <<mvars, dvars, xvars>>

AnalyseFirst == AnalyseFrom(BlockInsts)

\* findTentativeLoadsInUnboundedLoop after the first pass: the header's
\* store becomes the latch's and the second pass starts.
StartSecondWalk ==
  /\ bpc = "first"
  /\ insts # << >>
  /\ bpc' = "second"
  /\ secondPass' = TRUE
  /\ tlFirst' = tlOf
  /\ before' = << >>
  /\ after' = << >>
  /\ UNCHANGED <<insts, tlOf, cur>>
  /\ UNCHANGED <<prog, succsAlive, commitDisabledHere, programSingleThreaded, tlStore,
                 isThreadLocal, readsTentativeData, tpc, latchToHeader, headerIn,
                 firstPassTL>>
  /\ UNCHANGED <<mvars, dvars, xvars>>

\* The loop over the block's instructions, second pass.
AnalyseSecond ==
  /\ bpc = "second"
  /\ Len(before) < Len(insts)
  /\ insts[Len(before) + 1].k # "pathcond"
  /\ LET i == Len(before) + 1
         r == TLAnalyseInstruction(insts[i], tlOf[i], cur, commitDisabledHere, TRUE,
                                   programSingleThreaded)
     IN /\ tlOf' = [tlOf EXCEPT ![i] = r.tl]
        /\ before' = Append(before, cur)
        /\ after' = Append(after, r.store)
        /\ cur' = r.store
        /\ readsTentativeData' =
             (readsTentativeData \/ (/\ readsMemoryDirectly(insts[i])
                                     /\ r.tl = "MustCheck"
                                     /\ tlOf[i] # "MustCheck"))
  /\ UNCHANGED <<prog, succsAlive, commitDisabledHere, programSingleThreaded, tlStore,
                 isThreadLocal, tpc, secondPass, latchToHeader, headerIn, firstPassTL,
                 insts, tlFirst, bpc>>
  /\ UNCHANGED <<mvars, dvars, xvars>>

BlockNext ==
  \/ AnalyseFirst
  \/ StartSecondWalk
  \/ AnalyseSecond

SpecBlock == BlockInit /\ [][BlockNext]_vars

\* ------------------------------------------------------------------------
\* Properties of the classification of one block
\* ------------------------------------------------------------------------

\* The instructions that read memory.
ReadsMemory(SI) == SI.k \in {"load", "atomicrmw"}

\* A load without ordering constraint that is not volatile.
PlainLoad(SI) == SI.k = "load" /\ ~SI.ord /\ ~SI.vol

\* The second pass found instruction i already MustCheck.
KeptFromFirstPass(i) == bpc = "second" /\ tlFirst[i] = "MustCheck"

\* C13: in a single-threaded program every instruction that reads memory
\* is NeverCheck, in both passes, whatever the store and the context.
SingleThreadedNeverChecks ==
  programSingleThreaded =>
    \A i \in 1 .. Len(insts) : ReadsMemory(insts[i]) => tlOf[i] = "NeverCheck"

\* A check-suppressed single-threaded walk went twice over an ordered
\* load, an atomic and a plain load, starting with everything clobbered.
SingleThreadedWitness ==
  /\ programSingleThreaded
  /\ commitDisabledHere
  /\ bpc = "second"
  /\ insts = <<OrderedLoadG, AtomicRMWG, LoadG>>
  /\ Len(before) = 3
  /\ tlFirst = <<"NeverCheck", "NeverCheck", "NeverCheck">>

\* Instruction i is a store and instruction i + 1 a plain load of exactly
\* the bytes it wrote.
StoreThenLoad(i) ==
  /\ insts[i].k = "store"
  /\ PlainLoad(insts[i + 1])
  /\ insts[i + 1].o = insts[i].o
  /\ insts[i + 1].off = insts[i].off
  /\ insts[i + 1].sz = insts[i].sz

\* The classification the store s gives a plain load of known value in a
\* multi-threaded program.
ByStore(s, SI) ==
  IF (SI.off .. SI.off + SI.sz - 1) \subseteq Trusted(s, SI.o) THEN "NoCheck"
  ELSE "MustCheck"

LoadAfterOpaqueCall(j, i) ==
  /\ j < i
  /\ insts[j].k = "call" /\ insts[j].fn = "indirect" /\ insts[j].dom = "all"
  /\ PlainLoad(insts[i]) /\ insts[i].known /\ insts[i].o \in Objs
  /\ \A k \in j + 1 .. i - 1 : insts[k].o # insts[i].o

LocksDomain(SI, o) == SI.k = "call" /\ SI.fn = "yieldfn" /\ SI.dom = o

\* C16: a yield-point call with a lock domain empties the ranges of the
\* listed object and leaves every other object's ranges and the
\* allOthersClobbered flag as they were, so a load of another object
\* right after it is classified as the store before the call dictates.
DomainCallClobbersListedOnly ==
  \A i \in 1 .. Len(before) : \A g \in Objs :
    LocksDomain(insts[i], g) =>
      /\ Trusted(after[i], g) = {}
      /\ after[i].aoc = before[i].aoc
      /\ \A x \in Objs \ {g} : after[i].st[x] = before[i].st[x]
      /\ (/\ i < Len(before)
          /\ PlainLoad(insts[i + 1]) /\ insts[i + 1].o \in Objs \ {g}
          /\ ~KeptFromFirstPass(i + 1)) =>
           tlOf[i + 1] = IF programSingleThreaded THEN "NeverCheck"
                         ELSE ByStore(before[i], insts[i + 1])

\* A store trusting bytes of X and all of G met a call locking {G} and
\* then a load of X: G lost its ranges, the load needs no check; then a
\* load of G, which does.
DomainCallWitness ==
  /\ ~programSingleThreaded
  /\ bpc = "first"
  /\ insts = <<DomainCall, LoadX, LoadG>>
  /\ before[1].st["G"] = FullMap
  /\ before[1].st["X"] = << <<0, 1>> >>
  /\ after[1].st["G"] = << >>
  /\ tlOf[2] = "NoCheck"
  /\ tlOf[3] = "MustCheck"

\* C17: in a check-emitting context, after a plain load is classified
\* MustCheck the plain load of the same bytes right after it is NoCheck,
\* in the first pass and in the second.
CheckReestablishesTrust ==
  ~commitDisabledHere =>
    \A i \in 1 .. Len(before) - 1 :
      (PlainLoad(insts[i]) /\ insts[i + 1] = insts[i] /\ tlOf[i] = "MustCheck") =>
        tlOf[i + 1] = "NoCheck"

IsFullClobber(SI) ==
  \/ SI.k = "fence"
  \/ SI.k \in {"load", "atomicrmw"} /\ (SI.vol \/ SI.ord) /\ ~SI.simple
  \/ /\ SI.k = "call" /\ SI.dom = "all"
     /\ SI.fn = "yieldfn" \/ (SI.fn = "indirect" /\ ~programSingleThreaded)

\* C19: a full-clobber event leaves the block's store with
\* allOthersClobbered set and no trusted byte of any object, whatever the
\* store was before and whether or not the context is check-suppressed.
FullClobberEmptiesStore ==
  \A i \in 1 .. Len(before) :
    IsFullClobber(insts[i]) =>
      after[i].aoc /\ \A o \in Objs : Trusted(after[i], o) = {}

\* Instruction i allocates an object, instruction j is a later plain load
\* from it walked in this pass, and no full-clobber event lies between.
LoadOfFreshObject(i, j) ==
  /\ i < j
  /\ IsAllocation(insts[i])
  /\ PlainLoad(insts[j]) /\ insts[j].o = insts[i].o
  /\ \A k \in i + 1 .. j - 1 : ~IsFullClobber(insts[k])

DInsts ==
  { DInst("store", pp, NoPtr, sz, "", FALSE) :
      pp \in {Ptr("A", 0), Ptr("A", 1), Ptr("B", 0), NoPtr}, sz \in {1, MaxSize} }
  \cup
  { DInst("memset", Ptr("A", 0), NoPtr, UnknownSize, "", FALSE),
    DInst("memcpy", Ptr("A", 0), Ptr("B", 0), MaxSize, "live", FALSE),
    DInst("memcpy", Ptr("B", 0), Ptr("A", 0), 1, "live", FALSE),
    DInst("memcpy", Ptr("B", 0), Ptr("A", 0), 1, "dead", FALSE),
    DInst("read", Ptr("A", 0), NoPtr, MaxSize, "", FALSE),
    DInst("load", Ptr("A", 0), NoPtr, 1, "no", FALSE),
    DInst("load", Ptr("A", 0), NoPtr, 1, "yes", FALSE),
    DInst("load", Ptr("A", 0), NoPtr, 1, "unavail", FALSE),
    DInst("load", Ptr("A", 1), NoPtr, 1, "no", FALSE),
    DInst("load", Ptr("B", 0), NoPtr, 1, "no", FALSE),
    DInst("load", NoPtr, NoPtr, 1, "no", FALSE),
    DInst("free", Ptr("A", 0), NoPtr, 0, "use", FALSE),
    DInst("free", Ptr("B", 0), NoPtr, 0, "nouse", FALSE),
    DInst("call", NoPtr, NoPtr, 0, "nouse", FALSE),
    DInst("call", NoPtr, NoPtr, 0, "use", FALSE),
    DInst("call", NoPtr, NoPtr, 0, "use", TRUE),
    DInst("nop", NoPtr, NoPtr, 0, "", FALSE) }

\* The number of instructions of a root block after W, before its
\* terminator.
InstsIn(blk) == IF blk = 0 THEN 1 ELSE 2

DSEInit ==
  /\ MergeIdle
  /\ TLIdle
  /\ BlockIdle
  /\ XIdle
  /\ wKind \in {"alloca", "malloc"}
  /\ wPtr \in {Ptr("A", 0), Ptr("A", 1), NoPtr}
  /\ wSize \in (1 .. MaxSize) \cup {UnknownSize}
  /\ liveSuccs \in {1, 2}
  /\ dpc = "start"
  /\ pos = [blk |-> 0, idx |-> 1, ia |-> "root"]
  /\ ctx = NullCtx
  /\ pending = << >>
  /\ writeUsed = FALSE
  /\ unusedWriter \in BOOLEAN
  /\ result = FALSE
  /\ seen = NothingSeen
  /\ last = NoDInst
  /\ pathLog = << >>

\* tryKillWriterTo up to the walk: the context is allocated, and a pointer
\* without base and constant offset makes it return false at once.
tryKillWriterToStart ==
  /\ dpc = "start"
  /\ ctx' = IF wSize # UnknownSize THEN [i \in 1 .. wSize |-> FALSE] ELSE NullCtx
  /\ IF ~Resolves(wPtr)
       THEN dpc' = "done" /\ result' = FALSE
       ELSE dpc' = "walk" /\ UNCHANGED result
  /\ UNCHANGED <<wKind, wPtr, wSize, liveSuccs, pos, pending, writeUsed,
                 unusedWriter, seen, last, pathLog>>
  /\ UNCHANGED <<mvars, tvars, bvars, xvars>>

\* The walker's state as a record.
WalkState(d, p, c, q, u, sn, l) ==
  [dpc |-> d, pos |-> p, ctx |-> c, pending |-> q, writeUsed |-> u, seen |-> sn,
   pathLog |-> l]

Logged(how, sn, bits) ==
  Append(pathLog, [how |-> how, seen |-> sn, bits |-> bits, blk |-> pos.blk])

\* A path ended with success: its context is freed and the next queued
\* path, if any, is taken up.
EndPath(how, sn, bits, used) ==
  IF pending # << >>
  THEN WalkState("walk", [blk |-> pending[1].blk, idx |-> 1, ia |-> "root"],
                 pending[1].ctx, Tail(pending), used, pending[1].seen,
                 Logged(how, sn, bits))
  ELSE WalkState("walked", pos, NullCtx, << >>, used, sn, Logged(how, sn, bits))

\* The whole walk is given up: every context is freed.
StopWalk(how, sn, bits, used) ==
  WalkState("walked", pos, NullCtx, << >>, used, sn, Logged(how, sn, bits))

\* The walker's step over a non-terminator instruction I.
StepInst(I) ==
  LET r  == walkInstruction(I, wKind, wPtr, wSize, ctx, writeUsed)
      sn == Saw(seen, I, wKind, wPtr, wSize)
      next == IF pos.ia = "callee"
              THEN [pos EXCEPT !.ia = "calleeEnd"]
              ELSE [pos EXCEPT !.idx = pos.idx + 1]
  IN IF r.res = "StopWholeWalk" THEN StopWalk("read", sn, r.deadBytes, r.writeUsed)
     ELSE IF r.res = "StopThisPath"
       THEN EndPath(IF isLifetimeEnd(wKind, I) THEN "lifetime" ELSE "covered",
                    sn, r.deadBytes, r.writeUsed)
     ELSE IF I.k \in {"call", "free"} /\ shouldEnterCall(I)
       THEN IF I.ex
            THEN WalkState("walk", [pos EXCEPT !.ia = "callee"], r.deadBytes, pending,
                           r.writeUsed, sn, pathLog)
            ELSE IF blockedByUnexpandedCall(r.writeUsed).blocked
              THEN StopWalk("blocked", sn, r.deadBytes,
                            blockedByUnexpandedCall(r.writeUsed).writeUsed)
              ELSE WalkState("walk", next, r.deadBytes, pending,
                             blockedByUnexpandedCall(r.writeUsed).writeUsed, sn, pathLog)
     ELSE WalkState("walk", next, r.deadBytes, pending, r.writeUsed, sn, pathLog)

\* The terminator of the block the walker stands in.
Terminator ==
  [DInst(IF pos.ia = "root" /\ pos.blk = 0 THEN "br" ELSE "ret", NoPtr, NoPtr, 0, "", FALSE)
     EXCEPT !.ia = IF pos.ia = "root" THEN "root" ELSE "callee"]

\* The walker's step over that terminator.
StepTerm ==
  LET I  == Terminator
      r  == walkInstruction(I, wKind, wPtr, wSize, ctx, writeUsed)
      sn == Saw(seen, I, wKind, wPtr, wSize)
  IN IF r.res = "StopWholeWalk" THEN StopWalk("read", sn, r.deadBytes, r.writeUsed)
     ELSE IF r.res = "StopThisPath"
       THEN EndPath(IF isLifetimeEnd(wKind, I) THEN "lifetime" ELSE "covered",
                    sn, r.deadBytes, r.writeUsed)
     ELSE IF pos.ia = "calleeEnd"
       THEN WalkState("walk", [blk |-> pos.blk, idx |-> pos.idx + 1, ia |-> "root"],
                      r.deadBytes, pending, r.writeUsed, sn, pathLog)
     ELSE IF pos.blk = 0
       THEN WalkState("walk", [blk |-> 1, idx |-> 1, ia |-> "root"], r.deadBytes,
                      IF liveSuccs = 2
                      THEN Append(pending, [blk |-> 2, ctx |-> r.deadBytes, seen |-> sn])
                      ELSE pending,
                      r.writeUsed, sn, pathLog)
     ELSE WalkState("offtree", pos, r.deadBytes, pending, r.writeUsed, sn,
                    Logged("bottom", sn, r.deadBytes))

Take(w, I) ==
  /\ dpc' = w.dpc
  /\ pos' = w.pos
  /\ ctx' = w.ctx
  /\ pending' = w.pending
  /\ writeUsed' = w.writeUsed
  /\ seen' = w.seen
  /\ pathLog' = w.pathLog
  /\ last' = I
  /\ UNCHANGED <<wKind, wPtr, wSize, liveSuccs, unusedWriter, result>>
  /\ UNCHANGED <<mvars, tvars, bvars, xvars>>

AtTerminator ==
  \/ pos.ia = "calleeEnd"
  \/ pos.ia = "root" /\ pos.idx > InstsIn(pos.blk)

\* The walker visits the next instruction of the path.
WalkInst ==
  /\ dpc = "walk"
  /\ ~AtTerminator
  /\ \E ins \in DInsts :
       /\ ins.k = "free" /\ ins.p.b = "A" => wKind = "malloc"
       /\ ins.ex => pos.ia = "root"
       /\ Take(StepInst([ins EXCEPT !.ia = pos.ia]), [ins EXCEPT !.ia = pos.ia])

\* The walker visits the terminator of the block: a branch queues the live
\* successors, copying the context for all but the first; a callee's
\* return goes on after the call; the root function's return ends the
\* path when it ends the lifetime of W's object.
WalkTerm ==
  /\ dpc = "walk"
  /\ AtTerminator
  /\ Take(StepTerm, Terminator)

\* tryKillWriterTo after the walk.
tryKillWriterToFinish ==
  /\ dpc = "walked"
  /\ unusedWriter' = (unusedWriter \/ ~writeUsed)
  /\ result' = ~writeUsed
  /\ dpc' = "done"
  /\ UNCHANGED <<wKind, wPtr, wSize, liveSuccs, pos, ctx, pending, writeUsed, seen,
                 last, pathLog>>
  /\ UNCHANGED <<mvars, tvars, bvars, xvars>>

DSENext ==
  \/ tryKillWriterToStart
  \/ WalkInst
  \/ WalkTerm
  \/ tryKillWriterToFinish

SpecDSE == DSEInit /\ [][DSENext]_vars

\* ------------------------------------------------------------------------
\* Properties of the dead store search
\* ------------------------------------------------------------------------

AllBytesOfW == IF wSize = UnknownSize THEN {} ELSE 0 .. (wSize - 1)

\* A path that met the end of the object's lifetime or writes covering
\* every byte of W.
PathSucceeded(sn) == sn.end \/ (wSize # UnknownSize /\ sn.wr = AllBytesOfW)

\* A path that met a read of W's bytes or a call it could not enter.
PathAborted(sn) == sn.read \/ sn.blocked

\* Every path from W was walked to its end.
AllPathsLogged(log, q) ==
  /\ q = << >>
  /\ \/ Len(log) = liveSuccs
     \/ Len(log) = 1 /\ log[1].blk = 0

\* C6: tryKillWriterTo returns true, setting the unused-writer flag, only
\* if every forward path from W ended in full coverage or at a lifetime end
\* and nothing aborted the search; when a path aborts it returns false,
\* and whenever it returns false the flag is left as it was.
EliminatedOnlyIfEveryPathSucceeds ==
  [][dpc' = "done" =>
       /\ result' =>
            /\ unusedWriter'
            /\ AllPathsLogged(pathLog', pending')
            /\ \A i \in 1 .. Len(pathLog') :
                 /\ pathLog'[i].how \in {"covered", "lifetime"}
                 /\ PathSucceeded(pathLog'[i].seen)
                 /\ ~PathAborted(pathLog'[i].seen)
       /\ (\E i \in 1 .. Len(pathLog') : PathAborted(pathLog'[i].seen)) => ~result'
       /\ ~result' => unusedWriter' = unusedWriter
  ]_vars

\* Both outcomes over two paths: W eliminated after two successful paths,
\* or kept with its flag clear because the second path met a read.
EliminatedWitness ==
  /\ dpc = "done"
  /\ Len(pathLog) = 2
  /\ pathLog[1].how = "covered"
  /\ \/ result /\ pathLog[2].how = "lifetime"
     \/ ~result /\ ~unusedWriter /\ pathLog[2].how = "read"

\* C7: a store of known size that is followed on every path by a store
\* that must-aliases it and covers all its bytes, with no read of them in
\* between, is eliminated.
FullCoverEliminates ==
  (/\ dpc = "done"
   /\ pathLog # << >>
   /\ \A i \in 1 .. Len(pathLog) : pathLog[i].seen.cover)
  => result /\ unusedWriter

\* Two paths, each ended by a covering store, one of them after another
\* instruction.
FullCoverWitness ==
  /\ dpc = "done"
  /\ result
  /\ Len(pathLog) = 2
  /\ \A i \in 1 .. 2 : pathLog[i].seen.cover /\ pathLog[i].how = "covered"
  /\ pathLog[2].seen.n = 2
  /\ wSize = MaxSize

\* C8 as stated: a store followed by a store that covers only part of its
\* bytes is not eliminated.
PartialCoverRetains ==
  (dpc = "done" /\ \E i \in 1 .. Len(pathLog) : pathLog[i].seen.first = "partial")
  => ~result

\* C8, amended: a store that covers only part of W's bytes does not end
\* the path; the path goes on, and W is eliminated only if every such path
\* later meets the end of the object's lifetime or writes covering the
\* remaining bytes.
PartialCoverGoesOn ==
  \A i \in 1 .. Len(pathLog) :
    pathLog[i].seen.first = "partial" =>
      /\ pathLog[i].how \in {"covered", "lifetime"} =>
           pathLog[i].seen.n = 2 /\ PathSucceeded(pathLog[i].seen)
      /\ (dpc = "done" /\ result) => PathSucceeded(pathLog[i].seen)

\* A partial store first, and W both kept (the path ran into a read) and
\* eliminated (a second store covered the rest).
PartialCoverWitness ==
  /\ dpc = "done"
  /\ Len(pathLog) = 2
  /\ \A i \in 1 .. 2 : pathLog[i].seen.first = "partial"
  /\ pathLog[1].how = "covered"
  /\ pathLog[1].seen.wr = AllBytesOfW
  /\ pathLog[2].how \in {"covered", "read"}

\* C9: once a path meets a call that may reference W's pointer and has no
\* inline attempt, the search is over, tryKillWriterTo returns false and
\* the unused-writer flag is not set.
BlockedCallRetains ==
  [][(\E i \in 1 .. Len(pathLog') : pathLog'[i].seen.blocked) =>
       /\ dpc' \in {"walked", "done"}
       /\ pending' = << >>
       /\ pathLog'[Len(pathLog')].how = "blocked"
       /\ ~result'
       /\ unusedWriter' = unusedWriter
  ]_vars

\* The second path met such a call after the first had succeeded, and the
\* search returned.
BlockedCallWitness ==
  /\ dpc = "done"
  /\ ~result
  /\ ~unusedWriter
  /\ Len(pathLog) = 2
  /\ pathLog[1].how = "covered"
  /\ pathLog[2].seen.blocked
  /\ last.k = "call"

\* C10: a path that reaches the end of the lifetime of W's object
\* succeeds there whatever its bitmap holds, and only there does a path
\* end as a lifetime end; a write followed on every path by the end of its
\* object's lifetime is eliminated.
LifetimeEndSucceeds ==
  /\ \A i \in 1 .. Len(pathLog) :
       pathLog[i].seen.end <=> pathLog[i].how = "lifetime"
  /\ (/\ dpc = "done"
      /\ pathLog # << >>
      /\ \A i \in 1 .. Len(pathLog) : pathLog[i].seen.end)
     => result /\ unusedWriter

\* W eliminated on lifetime ends alone: a free right after W with no bit
\* set, or a return with some bits set and some not.
LifetimeEndWitness ==
  /\ dpc = "done"
  /\ result
  /\ \A i \in 1 .. Len(pathLog) : pathLog[i].how = "lifetime"
  /\ \/ /\ wKind = "malloc"
        /\ pathLog[1].seen.n = 1
        /\ pathLog[1].bits = <<FALSE, FALSE>>
     \/ /\ wKind = "alloca"
        /\ Len(pathLog) = 2
        /\ pathLog[2].bits = <<TRUE, FALSE>>

\* C11 as stated: any visited load or memory copy whose read range cannot
\* be proven disjoint from W's, and whose result is not a replaceable
\* value, keeps W from being eliminated.
EveryOverlappingReadAborts ==
  (/\ dpc = "done"
   /\ \E i \in 1 .. Len(pathLog) : pathLog[i].seen.read \/ pathLog[i].seen.deadcopy)
  => ~result

\* C11, amended: a load that is not replaced by an available value, or a
\* memory copy not already marked an unused writer, whose read range
\* cannot be proven disjoint from W's, ends the whole search on whatever
\* path and with whatever bitmap, and W is not eliminated; nothing else
\* ends the search as a read (a copy already marked an unused writer is
\* passed over).
OverlappingReadAborts ==
  [][/\ (\E i \in 1 .. Len(pathLog') : pathLog'[i].seen.read) =>
          /\ dpc' \in {"walked", "done"}
          /\ pending' = << >>
          /\ pathLog'[Len(pathLog')].how = "read"
          /\ ~result'
          /\ unusedWriter' = unusedWriter
     /\ \A i \in 1 .. Len(pathLog') :
          pathLog'[i].how = "read" => pathLog'[i].seen.read
  ]_vars

\* The second path ran into a load of W's bytes with one bit of its
\* bitmap set, after the first path had succeeded.
OverlappingReadWitness ==
  /\ dpc = "done"
  /\ ~result
  /\ ~unusedWriter
  /\ Len(pathLog) = 2
  /\ pathLog[1].how = "covered"
  /\ pathLog[2].how = "read"
  /\ pathLog[2].bits = <<TRUE, FALSE>>
  /\ last.k = "load"

\* C12: a candidate write of unknown size has no bitmap, no later writes
\* ever cover it, and it is eliminated only when every path reaches the
\* end of its object's lifetime.
UnknownSizeOnlyByLifetimeEnd ==
  wSize = UnknownSize =>
    /\ ctx = NullCtx
    /\ \A i \in 1 .. Len(pending) : pending[i].ctx = NullCtx
    /\ \A i \in 1 .. Len(pathLog) :
         pathLog[i].bits = NullCtx /\ pathLog[i].how # "covered"
    /\ (dpc = "done" /\ result) =>
         /\ AllPathsLogged(pathLog, pending)
         /\ \A i \in 1 .. Len(pathLog) :
              pathLog[i].how = "lifetime" /\ pathLog[i].seen.end

\* A write of unknown size eliminated over two paths that each walked a
\* further instruction before the lifetime end.
UnknownSizeWitness ==
  /\ wSize = UnknownSize
  /\ dpc = "done"
  /\ result
  /\ Len(pathLog) = 2
  /\ \A i \in 1 .. 2 : pathLog[i].seen.n = 2 /\ pathLog[i].how = "lifetime"

\* C31: every byte of W that a later write to a known address overlaps has
\* its bit set in the path's bitmap, whatever the other bits hold; so a path
\* whose writes together cover all of W's bytes, in whatever order, ends
\* there as covered (unless the lifetime ended or the search stopped first).
OverlappingBitsAlwaysSet ==
  /\ (dpc = "walk" /\ ctx # NullCtx) => \A i \in seen.wr : ctx[i + 1]
  /\ \A p \in 1 .. Len(pathLog) :
       (wSize # UnknownSize /\ pathLog[p].seen.wr = AllBytesOfW)
         => pathLog[p].how \in {"covered", "lifetime", "read", "blocked"}

\* C33: when tryKillWriterTo has returned, on whatever outcome, no bitmap
\* context is left allocated: neither the one made for the candidate write
\* nor a clone queued for another path.
EveryContextFreedOnReturn ==
  dpc = "done" => ctx = NullCtx /\ \A i \in 1 .. Len(pending) : pending[i].ctx = NullCtx

\* C34: a step of the search over a call of which the effect query says
\* that it cannot reference W's address goes past the call: the walker does
\* not descend, the search is not given up, no path ends, and the bitmap
\* of the path keeps every bit as it was.
UnreferencingCallSkipped ==
  [][(/\ dpc = "walk"
      /\ ~AtTerminator
      /\ last'.k \in {"call", "free"}
      /\ last'.m = "nouse")
       => /\ dpc' = "walk"
          /\ ctx' = ctx
          /\ writeUsed' = writeUsed
          /\ pending' = pending
          /\ pathLog' = pathLog
          /\ pos'.blk = pos.blk
          /\ pos'.ia = IF pos.ia = "root" THEN "root" ELSE "calleeEnd"
          /\ pos.ia = "root" => pos'.idx = pos.idx + 1]_vars

\* The search has just passed such a call on a path whose bitmap already
\* has a byte marked and another one not.
UnreferencingCallSkippedWitness ==
  /\ dpc = "walk"
  /\ last.k = "call"
  /\ last.m = "nouse"
  /\ pos.idx = 3
  /\ ctx # NullCtx
  /\ \E i, j \in 1 .. Len(ctx) : ctx[i] /\ ~ctx[j]

\* ------------------------------------------------------------------------
\* SpecSticky: the two passes over one block of a loop, as in SpecBlock,
\* with a load that the main analysis phase already classified
\* TLS_NEVERCHECK (a load from a known thread-local object) among the
\* instructions.
\* ------------------------------------------------------------------------

ThreadLocalLoadG == [LoadG EXCEPT !.tl0 = "NeverCheck"]

StickyInsts == {LoadX, LoadG, ThreadLocalLoadG, StoreG, OpaqueCall, DomainCall}

AnalyseSticky == AnalyseFrom(StickyInsts)

StickyNext ==
  \/ AnalyseSticky
  \/ StartSecondWalk
  \/ AnalyseSecond

SpecSticky == BlockInit /\ [][StickyNext]_vars

\* What shouldCheckLoad would answer for the i-th instruction on the store
\* this pass reached it with.
Reevaluated(i) == shouldCheckLoad(insts[i], before[i], programSingleThreaded)

NothingTentativeUnlessClobbered ==
  \A b \in Blocks :
    ~tlStore[b].aoc =>
      \A o \in Objs : \A off \in Bytes : \A sz \in 1 .. (MaxByte - off) :
        ~shouldCheckRead(tlStore[b], o, off, sz)

\* ------------------------------------------------------------------------
\* SpecWalk: InlineAttempt::findTentativeLoads on a whole call/loop tree,
\* with the snapshots as reference-counted heap objects.
\*
\* The function walked has the blocks
\*   FnEntry      its entry; it may hold a call, and ends with a load of G
\*   OuterHeader  the header of the unbounded loop U
\*   Inner        a block of U: a plain block, the one block of an
\*                unbounded loop V nested in U, or (IterBlock(j)) the one
\*                block of a terminated peel attempt of V with cfg.iters
\*                iterations
\*   OuterLatch   the latch of U
\*   FnReturn     the return block
\* with the edges FnEntry->OuterHeader, OuterHeader->Inner,
\* OuterHeader->FnReturn (e14), Inner->Inner (V's back edge),
\* Inner->OuterLatch (e23), Inner->FnReturn (e24), OuterLatch->OuterHeader
\* (e31), OuterLatch->FnReturn (e34).  The callee has the entry
\* CalleeEntry, which branches to the return blocks CalleeRetA and
\* CalleeRetB; cfg.rets are the live ones.
\* ------------------------------------------------------------------------

MaxIters == 2

FnEntry == 0
OuterHeader == 1
Inner == 2
OuterLatch == 3
FnReturn == 4
CalleeEntry == 5
CalleeRetA == 6
CalleeRetB == 7
IterBase == 10
IterBlock(j) == IterBase + j

NullStore == 0

WBlocks ==
  {FnEntry, OuterHeader, Inner, OuterLatch, FnReturn, CalleeEntry, CalleeRetA,
   CalleeRetB} \cup {IterBlock(j) : j \in 1..MaxIters}

IsIter(b) == b > IterBase

StoreX == Inst("store", "X", 0, 1, "", "")

\* The loop-focused trees: no call, every shape of the loops.
LoopConfigs ==
  { c \in [main : BOOLEAN, shared : BOOLEAN, frame : BOOLEAN, call : {FALSE},
           rets : {{CalleeRetA}},
           cframe : {FALSE}, cenabled : {TRUE}, cinst : {NoInst},
           child : {"plain", "unbounded", "peeled"}, iters : 1..MaxIters,
           e14 : BOOLEAN, e24 : BOOLEAN, e23 : BOOLEAN, e31 : BOOLEAN,
           e34 : BOOLEAN, vinst : {NoInst, StoreX, Fence, DomainCall},
           suppressed : BOOLEAN, penabled : BOOLEAN] :
      /\ c.main => ~c.shared
      /\ (c.suppressed \/ ~c.penabled) =>
           (~c.main /\ ~c.shared /\ ~c.frame /\ c.child = "peeled")
      /\ c.child # "peeled" => c.iters = 1
      /\ c.e23 \/ c.e24                          \* Inner has a way on
      /\ c.e23 => (c.e31 \/ c.e34)               \* so has the latch
      /\ ~c.e23 => (~c.e31 /\ ~c.e34)            \* a dead latch has no edges
      /\ c.e14 \/ c.e24 \/ (c.e23 /\ c.e34) }    \* the function returns

\* The call-focused trees: the loops are a straight line.
CallConfigs ==
  { c \in [main : BOOLEAN, shared : BOOLEAN, frame : BOOLEAN, call : {TRUE},
           rets : SUBSET {CalleeRetA, CalleeRetB}, cframe : BOOLEAN,
           cenabled : BOOLEAN, cinst : {NoInst, StoreX, Fence}, child : {"plain"},
           iters : {1}, e14 : {FALSE}, e24 : {FALSE}, e23 : {TRUE}, e31 : {FALSE},
           e34 : {TRUE}, vinst : {NoInst}, suppressed : {FALSE},
           penabled : {TRUE}] :
      c.main => ~c.shared }

WalkConfigs == LoopConfigs \cup CallConfigs

\* The store a function with callers is entered with: its caller ran a
\* yield point and then a store to G.  When cfg.shared, the caller's block
\* took it over from a predecessor whose other successor still holds it.
CallerStore == [AllClobbered EXCEPT !.st["G"] = << <<0, 1>> >>]

\* The instruction of each block.
InstAt(c, b) ==
  IF b = FnEntry THEN LoadG
  ELSE IF b = Inner \/ IsIter(b) THEN c.vinst
  ELSE IF b = CalleeEntry THEN c.cinst
  ELSE NoInst

InCallee(b) == b \in {CalleeEntry, CalleeRetA, CalleeRetB}

\* Terminators: the blocks that end with a ReturnInst (they have no
\* successor at all).
IsReturn(b) == b \in {FnReturn, CalleeRetA, CalleeRetB}

\* The first block of the body of U after its header.
FirstInner(c) == IF c.child = "peeled" THEN IterBlock(1) ELSE Inner

\* BB->succsAlive: the live successors of block b.
LiveSuccs(c, b) ==
  LET exits == (IF c.e23 THEN {OuterLatch} ELSE {}) \cup
               (IF c.e24 THEN {FnReturn} ELSE {})
  IN  IF b = FnEntry THEN (IF c.call /\ c.rets = {} THEN {} ELSE {OuterHeader})
      ELSE IF b = OuterHeader
        THEN {FirstInner(c)} \cup (IF c.e14 THEN {FnReturn} ELSE {})
      ELSE IF b = Inner
        THEN exits \cup (IF c.child = "unbounded" THEN {Inner} ELSE {})
      ELSE IF IsIter(b)
        THEN exits \cup (IF b < IterBlock(c.iters) THEN {b + 1} ELSE {})
      ELSE IF b = OuterLatch
        THEN (IF c.e31 THEN {OuterHeader} ELSE {}) \cup
             (IF c.e34 THEN {FnReturn} ELSE {})
      ELSE IF b = CalleeEntry THEN c.rets
      ELSE {}

\* The blocks of b whose live edge leads to b, in block order: what
\* visitNormalPredecessorsBW visits.  A block of a terminated peel attempt
\* stands for itself in every iteration.
LivePreds(c, b) ==
  LET all == IF c.child = "peeled"
               THEN (WBlocks \ {Inner}) \ {IterBlock(j) : j \in (c.iters + 1)..MaxIters}
               ELSE {x \in WBlocks : ~IsIter(x)}
  IN  {p \in all : b \in LiveSuccs(c, p)}

\* Loop membership: L->contains(block's scope).
LoopContains(L, b) ==
  IF L = "U" THEN b \in {OuterHeader, Inner, OuterLatch} \/ IsIter(b)
  ELSE IF L = "V" THEN b = Inner \/ IsIter(b)
  ELSE FALSE

LoopHeader(L) == IF L = "U" THEN OuterHeader ELSE Inner

\* One step of the walk.  op is what runs; b its block; from the block
\* whose store is handed over; L the loop argument of the running
\* findTentativeLoadsInLoop ("none": the function), own whether that loop
\* is the context's own loop (a peel iteration); sp and l2h the secondPass
\* and latchToHeader arguments; first whether b is the walk's first block,
\* which is not merged; dis the commitDisabledHere argument.
Step(op, b, from, L, own, sp, l2h, first, dis) ==
  [op |-> op, b |-> b, from |-> from, L |-> L, own |-> own, sp |-> sp,
   l2h |-> l2h, first |-> first, dis |-> dis]

\* The walk of one block (lines 1100-1182): merge, instructions, end.
BlockSteps(b, L, own, sp, l2h, first, dis) ==
  << Step("begin", b, b, L, own, sp, l2h, first, dis),
     Step("inst", b, b, L, own, sp, l2h, first, dis),
     Step("end", b, b, L, own, sp, l2h, first, dis) >>

\* The iterations of a terminated peel attempt, from iteration j on (lines
\* 1069-1082): each is walked once, and hands its latch store to the next.
\* commitDisabledHere || !LPA->isEnabled() (line 1073).
commitDisabled(c) == c.suppressed \/ ~c.penabled

\* Faulty variant: every iteration's header takes the preheader's store.
RECURSIVE PeelStepsFromPreheader(_, _, _)
PeelStepsFromPreheader(c, j, sp) ==
  BlockSteps(IterBlock(j), "V", TRUE, sp, FALSE, TRUE, commitDisabled(c)) \o
  (IF j < c.iters
     THEN << Step("give", IterBlock(j + 1), OuterHeader, "V", TRUE, sp, FALSE,
                  TRUE, commitDisabled(c)) >> \o PeelStepsFromPreheader(c, j + 1, sp)
     ELSE << >>)

RECURSIVE PeelSteps(_, _, _)
PeelSteps(c, j, sp) ==
  BlockSteps(IterBlock(j), "V", TRUE, sp, FALSE, TRUE, commitDisabled(c)) \o
  (IF j < c.iters
     THEN << Step("give", IterBlock(j + 1), IterBlock(j), "V", TRUE, sp, FALSE,
                  TRUE, commitDisabled(c)) >> \o PeelSteps(c, j + 1, sp)
     ELSE << >>)

\* Faulty variant: an unbounded nested loop is walked in two passes even
\* inside the second pass of the enclosing loop.
ChildStepsAlwaysTwoPasses(c, sp, l2h) ==
  IF c.child = "plain"
    THEN BlockSteps(Inner, "U", FALSE, sp, l2h, FALSE, FALSE)
  ELSE IF c.child = "peeled"
    THEN << Step("give", IterBlock(1), OuterHeader, "V", TRUE, sp, FALSE, TRUE,
                 c.suppressed) >> \o PeelSteps(c, 1, sp)
  ELSE << Step("give", Inner, OuterHeader, "V", FALSE, sp, FALSE, TRUE, FALSE) >> \o
       BlockSteps(Inner, "V", FALSE, FALSE, TRUE, TRUE, FALSE) \o
       << Step("give", Inner, Inner, "V", FALSE, FALSE, TRUE, TRUE, FALSE) >> \o
       BlockSteps(Inner, "V", FALSE, TRUE, FALSE, TRUE, FALSE)

\* The walk of the nested loop V when the walk of U reaches its header
\* with secondPass sp (lines 1063-1098 and 1019-1043).
ChildSteps(c, sp, l2h) ==
  IF c.child = "plain"
    THEN BlockSteps(Inner, "U", FALSE, sp, l2h, FALSE, FALSE)
  ELSE IF c.child = "peeled"
    THEN << Step("give", IterBlock(1), OuterHeader, "V", TRUE, sp, FALSE, TRUE,
                 c.suppressed) >> \o PeelSteps(c, 1, sp)
  ELSE << Step("give", Inner, OuterHeader, "V", FALSE, sp, FALSE, TRUE, FALSE) >> \o
       (IF ~sp
          THEN BlockSteps(Inner, "V", FALSE, FALSE, TRUE, TRUE, FALSE) \o
               << Step("give", Inner, Inner, "V", FALSE, FALSE, TRUE, TRUE, FALSE) >>
          ELSE << >>) \o
       BlockSteps(Inner, "V", FALSE, TRUE, FALSE, TRUE, FALSE)

\* One walk of the blocks of U: findTentativeLoadsInLoop(U, ., sp, l2h).
OuterWalk(c, sp, l2h) ==
  BlockSteps(OuterHeader, "U", FALSE, sp, l2h, TRUE, c.suppressed) \o
  ChildSteps(c, sp, l2h) \o
  (IF c.e23 THEN BlockSteps(OuterLatch, "U", FALSE, sp, l2h, FALSE, c.suppressed)
   ELSE << >>)

\* findTentativeLoadsInUnboundedLoop(U, ., FALSE): twice if the back edge
\* e31 is live, else once.
OuterLoopSteps(c) ==
  << Step("give", OuterHeader, FnEntry, "U", FALSE, FALSE, FALSE, TRUE,
          c.suppressed) >> \o
  (IF c.e31
     THEN OuterWalk(c, FALSE, TRUE) \o
          << Step("give", OuterHeader, OuterLatch, "U", FALSE, FALSE, TRUE, TRUE,
                  c.suppressed) >> \o
          OuterWalk(c, TRUE, FALSE)
     ELSE OuterWalk(c, FALSE, FALSE))

\* The call of FnEntry: the callee's walk and the merge of its returns
\* (lines 1115-1119).
CallSteps(c) ==
  LET dis == ~c.cenabled
      ret(b) == IF b \in c.rets
                  THEN BlockSteps(b, "none", FALSE, FALSE, FALSE, FALSE, dis)
                  ELSE << >>
  IN  << Step("enter", CalleeEntry, FnEntry, "none", FALSE, FALSE, FALSE, TRUE, dis) >> \o
      BlockSteps(CalleeEntry, "none", FALSE, FALSE, FALSE, TRUE, dis) \o
      ret(CalleeRetA) \o ret(CalleeRetB) \o
      << Step("callMerge", FnEntry, CalleeEntry, "none", FALSE, FALSE, FALSE, TRUE,
              FALSE) >>

\* The whole walk.  After a call that never returns, the rest of the
\* function is dead: its blocks do not exist.
Schedule(c) ==
  LET e == BlockSteps(FnEntry, "none", FALSE, FALSE, FALSE, TRUE, c.suppressed)
  IN  << Step("enter", FnEntry, FnEntry, "none", FALSE, FALSE, FALSE, TRUE,
              c.suppressed),
         e[1] >> \o
      (IF c.call THEN CallSteps(c) ELSE << >>) \o
      << e[2], e[3] >> \o
      (IF c.call /\ c.rets = {} THEN << >>
       ELSE OuterLoopSteps(c) \o
            BlockSteps(FnReturn, "none", FALSE, FALSE, FALSE, FALSE, c.suppressed))

\* --- the snapshot heap (TLLocalStore: refCount, getWritableFrameList,
\* getEmptyMap, pushStackFrame, popStackFrame, dropReference) -------------

\* A snapshot: rc its reference count (0: freed), s what it trusts, depth
\* the number of its stack frames.
Snap(s, d) == [rc |-> 1, s |-> s, depth |-> d]

\* The elements of a set of numbers in ascending order.
RECURSIVE Ascending(_)
Ascending(S) ==
  IF S = {} THEN << >>
  ELSE LET m == CHOOSE x \in S : \A y \in S : x <= y
       IN  <<m>> \o Ascending(S \ {m})

\* Using a snapshot whose count reached zero.
Uses(h, id) == IF id # NullStore /\ h[id].rc = 0 THEN {"useafterfree"} ELSE {}

\* TLMapPointer-style dropReference on a snapshot: the count falls by one;
\* at zero the snapshot is freed (it stays in heap with rc 0).  A second
\* free is recorded in faults by the caller.
dropReference(h, id) == IF h[id].rc > 0 THEN [h EXCEPT ![id].rc = @ - 1] ELSE h

Frees(h, id) == IF h[id].rc = 0 THEN {"doublefree"} ELSE {}

\* getWritableFrameList: the snapshot itself when the caller holds the only
\* reference, else a copy that takes over the caller's reference.
getWritableFrameList(h, id) ==
  IF h[id].rc <= 1 THEN [h |-> h, id |-> id]
  ELSE [h |-> Append([h EXCEPT ![id].rc = @ - 1], Snap(h[id].s, h[id].depth)),
        id |-> Len(h) + 1]

\* Faulty variant: the contents are written in place whoever else holds
\* the snapshot.
WriteStoreInPlace(h, id, s) == [h |-> [h EXCEPT ![id].s = s], id |-> id]

\* Any change of a snapshot's contents (getWritableTLStore of line 103,
\* getEmptyMap of line 118) goes through the writable accessor.
WriteStore(h, id, s) ==
  IF s = h[id].s THEN [h |-> h, id |-> id]
  ELSE LET w == getWritableFrameList(h, id)
       IN  [h |-> [w.h EXCEPT ![w.id].s = s], id |-> w.id]

RECURSIVE DropAll(_, _)
DropAll(h, ids) ==
  IF ids = << >> THEN h ELSE DropAll(dropReference(h, ids[1]), Tail(ids))

RECURSIVE FreesAll(_, _)
FreesAll(h, ids) ==
  IF ids = << >> THEN {}
  ELSE Frees(h, ids[1]) \cup FreesAll(dropReference(h, ids[1]), Tail(ids))

\* TLMerger::doMerge on snapshots: the first incoming snapshot is retained
\* with the reference its edge held, the merged contents are written to it
\* through the writable accessor, and the reference of every other
\* incoming edge is dropped.
MergeSnapshots(h, ids, merged) ==
  LET w == WriteStore(h, ids[1], merged)
  IN  [h |-> DropAll(w.h, Tail(ids)), id |-> w.id]

MergeFaults(h, ids, merged) ==
  LET w == WriteStore(h, ids[1], merged)
  IN  UNION {Uses(h, ids[i]) : i \in 1..Len(ids)} \cup FreesAll(w.h, Tail(ids))

\* --- the walk ------------------------------------------------------------

WalkDone == wpc > Len(Schedule(cfg))

CurStep == Schedule(cfg)[wpc]

\* doTLCallMerge, lines 260-264: the merger's newMap, which stays null
\* when no return block is live.
\* Faulty variant: the caller's block keeps the store it gave the callee.
callMergeMapKeepsCallerStore(ids, mergedId) ==
  IF Len(ids) = 0 THEN tlStoreOf[CalleeEntry] ELSE mergedId

callMergeMap(ids, mergedId) == IF Len(ids) = 0 THEN NullStore ELSE mergedId

\* findTentativeLoads, line 752: whether the function pushes a frame.
pushesFrame(frameSizeKnown, hasCallers) == frameSizeKnown \/ ~hasCallers

\* Line 1170-1171: whether a block pops the function's frame.
\* Faulty variant: every block without successors pops.
popsFrameAlways(noSuccessors, frameSizeKnown) == noSuccessors

popsFrame(noSuccessors, frameSizeKnown) == noSuccessors /\ frameSizeKnown

\* invarInfo->frameSize != -1 and Callers.size() != 0 of b's function.
FrameSizeKnown(c, b) == IF InCallee(b) THEN c.cframe ELSE c.frame
HasCallers(c, b) == IF InCallee(b) THEN TRUE ELSE ~c.main

\* Lines 1146-1166: whether the edge from the block of step st to its live
\* successor s is given a reference.
\* Faulty variant: every live edge is given a reference.
followsEdgeAlways(st, s) == TRUE

followsEdge(st, s) ==
  IF st.L # "none" /\ ~st.own /\ st.l2h /\ ~LoopContains(st.L, s) THEN FALSE
  ELSE IF st.L # "none" /\ ~st.own /\ ~st.l2h /\ s = LoopHeader(st.L) THEN FALSE
  ELSE TRUE

WalkInit ==
  /\ MergeIdle
  /\ TLIdle
  /\ DSEIdle
  /\ BlockIdle
  /\ RangeIdle
  /\ QueryIdle
  /\ KIdle
  /\ cfg \in WalkConfigs
  /\ heap = IF cfg.main THEN << >>
            ELSE << [Snap(CallerStore, 1) EXCEPT !.rc = IF cfg.shared THEN 2 ELSE 1] >>
  /\ tlStoreOf = [b \in WBlocks |->
                    IF b = FnEntry /\ ~cfg.main THEN 1 ELSE NullStore]
  /\ wpc = 1
  /\ faults = {}
  /\ visits = [b \in WBlocks |-> [walks |-> 0, insts |-> 0]]
  /\ wtl = [b \in WBlocks |-> "MustCheck"]

\* InlineAttempt::findTentativeLoads (lines 746-760): the root main call
\* makes its store; the function takes the store handed to its entry
\* block and pushes its frame.
FindTentativeLoads ==
  /\ ~WalkDone
  /\ CurStep.op = "enter"
  /\ LET st == CurStep
         b == st.b
         made == b = FnEntry /\ cfg.main
         h1 == IF made THEN Append(heap, Snap(EmptyStore, 0)) ELSE heap
         id1 == IF made THEN Len(heap) + 1 ELSE tlStoreOf[st.from]
         w == getWritableFrameList(h1, id1)
         push == pushesFrame(FrameSizeKnown(cfg, b), HasCallers(cfg, b))
     IN  /\ heap' = IF push THEN [w.h EXCEPT ![w.id].depth = @ + 1] ELSE h1
         /\ tlStoreOf' = [tlStoreOf EXCEPT ![b] = IF push THEN w.id ELSE id1]
         /\ faults' = faults \cup Uses(h1, id1)
  /\ wpc' = wpc + 1
  /\ UNCHANGED <<cfg, visits, wtl>>
  /\ UNCHANGED <<ovars, rvars, qvars, kvars>>

\* Lines 1024, 1032, 1072 and 1080: a header takes the store pointer of
\* its preheader, of the latch after the first pass, or of the previous
\* iteration's latch.
GiveStore ==
  /\ ~WalkDone
  /\ CurStep.op = "give"
  /\ tlStoreOf' = [tlStoreOf EXCEPT ![CurStep.b] = tlStoreOf[CurStep.from]]
  /\ wpc' = wpc + 1
  /\ UNCHANGED <<cfg, heap, faults, visits, wtl>>
  /\ UNCHANGED <<ovars, rvars, qvars, kvars>>

\* Lines 1100-1104: a block that is not the walk's first merges the stores
\* of its live predecessors.
BeginBlock ==
  /\ ~WalkDone
  /\ CurStep.op = "begin"
  /\ IF CurStep.first
       THEN UNCHANGED <<heap, tlStoreOf, faults>>
       ELSE \E b \in {CurStep.b} :
            \E ids \in {[i \in 1..Cardinality(LivePreds(cfg, b)) |->
                          tlStoreOf[Ascending(LivePreds(cfg, b))[i]]]} :
            \E merged \in {doTLStoreMerge([i \in 1..Len(ids) |-> heap[ids[i]].s])} :
            \E m \in {MergeSnapshots(heap, ids, merged)} :
              /\ heap' = m.h
              /\ tlStoreOf' = [tlStoreOf EXCEPT ![b] = m.id]
              /\ faults' = faults \cup MergeFaults(heap, ids, merged)
  /\ visits' = [visits EXCEPT ![CurStep.b].walks = @ + 1]
  /\ wpc' = wpc + 1
  /\ UNCHANGED <<cfg, wtl>>
  /\ UNCHANGED <<ovars, rvars, qvars, kvars>>

\* Lines 1108-1141: the block's instruction is analysed, unless the block
\* lost its store to a call that never returns.
AnalyseInst ==
  /\ ~WalkDone
  /\ CurStep.op = "inst"
  /\ \E st \in {CurStep} :
     \E b \in {st.b} :
     \E id \in {tlStoreOf[b]} :
     \E SI \in {InstAt(cfg, b)} :
       IF id = NullStore \/ SI = NoInst
         THEN UNCHANGED <<heap, tlStoreOf, faults, visits, wtl>>
         ELSE \E r \in {TLAnalyseInstruction(SI, wtl[b], heap[id].s, st.dis, st.sp,
                                             FALSE)} :
              \E w \in {WriteStore(heap, id, r.store)} :
                /\ heap' = w.h
                /\ tlStoreOf' = [tlStoreOf EXCEPT ![b] = w.id]
                /\ faults' = faults \cup Uses(heap, id)
                /\ visits' = [visits EXCEPT ![b].insts = @ + 1]
                /\ wtl' = [wtl EXCEPT ![b] = r.tl]
  /\ wpc' = wpc + 1
  /\ UNCHANGED cfg
  /\ UNCHANGED <<ovars, rvars, qvars, kvars>>

\* doTLCallMerge after the callee's walk (lines 1119 and 258-266): the
\* caller's block takes the merge of the live return blocks' stores, or no
\* store if there is none.
CallReturn ==
  /\ ~WalkDone
  /\ CurStep.op = "callMerge"
  /\ \E b \in {CurStep.b} :
     \E ids \in {[i \in 1..Cardinality(cfg.rets) |->
                   tlStoreOf[Ascending(cfg.rets)[i]]]} :
       IF cfg.rets = {}
         THEN /\ tlStoreOf' = [tlStoreOf EXCEPT ![b] = callMergeMap(ids, NullStore)]
              /\ UNCHANGED <<heap, faults>>
         ELSE \E merged \in {doTLCallMerge([i \in 1..Len(ids) |-> heap[ids[i]].s])} :
              \E m \in {MergeSnapshots(heap, ids, merged)} :
                /\ tlStoreOf' = [tlStoreOf EXCEPT ![b] = callMergeMap(ids, m.id)]
                /\ heap' = m.h
                /\ faults' = faults \cup MergeFaults(heap, ids, merged)
  /\ wpc' = wpc + 1
  /\ UNCHANGED <<cfg, visits, wtl>>
  /\ UNCHANGED <<ovars, rvars, qvars, kvars>>

\* Lines 1136-1182: a block without store is left as it is; else each
\* followed live edge takes a reference, a return block pops the
\* function's frame, and a block that does not return drops its own
\* reference.
EndBlock ==
  /\ ~WalkDone
  /\ CurStep.op = "end"
  /\ \E st \in {CurStep} :
     \E b \in {st.b} :
     \E id \in {tlStoreOf[b]} :
       IF id = NullStore
         THEN UNCHANGED <<heap, tlStoreOf, faults>>
         ELSE \E n \in {Cardinality({s \in LiveSuccs(cfg, b) : followsEdge(st, s)})} :
              \E h1 \in {[heap EXCEPT ![id].rc = @ + n]} :
              \E pop \in {popsFrame(IsReturn(b), FrameSizeKnown(cfg, b))} :
              \E w \in {getWritableFrameList(h1, id)} :
              \E h2 \in {IF pop THEN [w.h EXCEPT ![w.id].depth = @ - 1] ELSE h1} :
              \E id2 \in {IF pop THEN w.id ELSE id} :
                /\ heap' = IF IsReturn(b) THEN h2 ELSE dropReference(h2, id2)
                /\ tlStoreOf' = [tlStoreOf EXCEPT ![b] = id2]
                /\ faults' = faults \cup Uses(heap, id) \cup
                               (IF IsReturn(b) THEN {} ELSE Frees(h2, id2))
  /\ wpc' = wpc + 1
  /\ UNCHANGED <<cfg, visits, wtl>>
  /\ UNCHANGED <<ovars, rvars, qvars, kvars>>

WalkNext ==
  \/ FindTentativeLoads
  \/ GiveStore
  \/ BeginBlock
  \/ AnalyseInst
  \/ CallReturn
  \/ EndBlock

SpecWalk == WalkInit /\ [][WalkNext]_vars

\* The walk is a sequential procedure: a step that can run does run.
SpecWalkFair == SpecWalk /\ WF_vars(WalkNext)

\* ------------------------------------------------------------------------
\* Properties of the tree walk
\* ------------------------------------------------------------------------

\* The step that ran last.
PrevStep == Schedule(cfg)[wpc - 1]

\* The live successor edges a block's walk follows: all of them in a
\* function or in a peel iteration; in the first pass over an unbounded
\* loop those that stay inside the loop; in any other walk of a loop those
\* that do not lead back to its header.
FollowedSuccs(c, st) ==
  LET live == LiveSuccs(c, st.b)
  IN  IF st.L = "none" \/ st.own THEN live
      ELSE IF st.l2h THEN {s \in live : LoopContains(st.L, s)}
      ELSE live \ {LoopHeader(st.L)}

\* C21: when the walk finishes a block that holds a snapshot and does not
\* end with a return, the count of that snapshot changes by N - 1 for the
\* N live successor edges followed; a return block keeps its reference
\* (on the snapshot it held, or on the private copy the frame pop made).
BlockReferenceAccounting ==
  [][(~WalkDone /\ CurStep.op = "end" /\ tlStoreOf[CurStep.b] # NullStore) =>
       LET b == CurStep.b
           id == tlStoreOf[b]
           N == Cardinality(FollowedSuccs(cfg, CurStep))
       IN  IF IsReturn(b)
             THEN /\ tlStoreOf'[b] # NullStore
                  /\ heap'[tlStoreOf'[b]].rc =
                       (IF tlStoreOf'[b] = id THEN heap[id].rc ELSE 1)
             ELSE /\ tlStoreOf'[b] = id
                  /\ heap'[id].rc = heap[id].rc + N - 1]_vars

\* The second pass over U has finished its header, which has two followed
\* successors (the body and the return block): the snapshot gained one
\* reference.
BlockReferenceWitness ==
  /\ wpc > 1
  /\ wpc <= Len(Schedule(cfg)) + 1
  /\ PrevStep.op = "end"
  /\ PrevStep.b = OuterHeader
  /\ PrevStep.sp
  /\ cfg.e14
  /\ Cardinality(FollowedSuccs(cfg, PrevStep)) = 2
  /\ heap[tlStoreOf[OuterHeader]].rc = 2

\* What the walk leaves behind: the return block's snapshot, whose
\* reference is handed out of the function, and the reference of the other
\* holder of a shared entry snapshot.
Returned(id) == id = tlStoreOf[FnReturn]

HeldOutside(id) ==
  (IF Returned(id) THEN 1 ELSE 0) + (IF id = 1 /\ ~cfg.main /\ cfg.shared THEN 1 ELSE 0)

\* C22: over a complete walk no snapshot is freed twice, none is used
\* after its count reached zero, and when the walk is over every snapshot
\* is freed except the one the return block hands out, which is held
\* once (a shared entry snapshot keeps its other holder's reference).
SnapshotsFreedExactlyOnce ==
  /\ faults = {}
  /\ WalkDone =>
       \A id \in 1..Len(heap) : heap[id].rc = HeldOutside(id)

\* C23: no step of the walk changes what a snapshot held more than once
\* trusts, its flag or its frames: every other holder sees it as before.
CopyOnWrite ==
  [][\A id \in 1..Len(heap) :
       heap[id].rc > 1 =>
         /\ heap'[id].s = heap[id].s
         /\ heap'[id].depth = heap[id].depth]_vars

\* An instruction has just changed the store of a block whose snapshot
\* another holder shares: the block now holds a fresh copy, and the
\* original is still held and differs from it.
CopyOnWriteWitness ==
  /\ wpc > 1
  /\ wpc <= Len(Schedule(cfg)) + 1
  /\ PrevStep.op = "inst"
  /\ InstAt(cfg, PrevStep.b) \in {StoreX, Fence, DomainCall}
  /\ Len(heap) >= 2
  /\ tlStoreOf[PrevStep.b] = Len(heap)
  /\ \E id \in 1..(Len(heap) - 1) :
       /\ heap[id].rc >= 1
       /\ heap[id].s # heap[Len(heap)].s

\* The frame depth of the snapshot the function of block b is entered
\* with: a function with callers is handed a snapshot of depth 1, the root
\* main call makes one of depth 0 (line 749), and the callee is entered
\* with the caller's snapshot, on which the caller has pushed its frame if
\* its frame size is known or it has no callers.
EntryDepth(c, b) ==
  LET root == IF c.main THEN 0 ELSE 1
  IN  IF InCallee(b) THEN root + (IF c.frame \/ c.main THEN 1 ELSE 0) ELSE root

\* The walk has just finished a return block that holds a snapshot.
AtReturnEnd ==
  /\ wpc > 1
  /\ wpc <= Len(Schedule(cfg)) + 1
  /\ PrevStep.op = "end"
  /\ IsReturn(PrevStep.b)
  /\ tlStoreOf[PrevStep.b] # NullStore

\* The walk has just merged the returns of a call that returns.
AtCallReturn ==
  /\ wpc > 1
  /\ wpc <= Len(Schedule(cfg)) + 1
  /\ PrevStep.op = "callMerge"
  /\ tlStoreOf[FnEntry] # NullStore

\* C24 as stated: every function leaves each of its return blocks, and
\* every call leaves the caller, with the frame depth the function was
\* entered with.
FramesNestInEveryFunction ==
  /\ AtReturnEnd =>
       heap[tlStoreOf[PrevStep.b]].depth = EntryDepth(cfg, PrevStep.b)
  /\ AtCallReturn =>
       heap[tlStoreOf[FnEntry]].depth = EntryDepth(cfg, CalleeEntry)

\* C24, amended: this holds of every function that has callers, and so of
\* every call; the root main call, which has none, pushes a frame in any
\* case and pops it only when its frame size is known.
FramesNestInCalledFunctions ==
  /\ (AtReturnEnd /\ HasCallers(cfg, PrevStep.b)) =>
       heap[tlStoreOf[PrevStep.b]].depth = EntryDepth(cfg, PrevStep.b)
  /\ (AtReturnEnd /\ ~HasCallers(cfg, PrevStep.b)) =>
       heap[tlStoreOf[PrevStep.b]].depth =
         EntryDepth(cfg, PrevStep.b) + (IF cfg.frame THEN 0 ELSE 1)
  /\ AtCallReturn =>
       heap[tlStoreOf[FnEntry]].depth = EntryDepth(cfg, CalleeEntry)

\* A call of a function that pushes a frame and has two live return
\* blocks, which share the entry block's snapshot, has returned.
FramesNestWitness ==
  /\ AtCallReturn
  /\ cfg.cframe
  /\ cfg.rets = {CalleeRetA, CalleeRetB}
  /\ heap[tlStoreOf[CalleeRetA]].depth = EntryDepth(cfg, CalleeEntry)
  /\ heap[tlStoreOf[FnEntry]].depth = EntryDepth(cfg, CalleeEntry)

\* The caller's block has just analysed its load of G, after a call that
\* returned.
AtLoadAfterCall ==
  /\ wpc > 1
  /\ wpc <= Len(Schedule(cfg)) + 1
  /\ cfg.call
  /\ PrevStep.op = "inst"
  /\ PrevStep.b = FnEntry
  /\ tlStoreOf[FnEntry] # NullStore

\* The callee is check-suppressed and its entry block, which every path to
\* a return runs through, is a yield point.
SuppressedCalleeYields == cfg.call /\ ~cfg.cenabled /\ cfg.cinst = Fence

NeverReturns == cfg.call /\ cfg.rets = {}

\* The walk is past the merge of the call's return blocks.
AfterCallMerge ==
  \E i \in 1 .. (wpc - 1) : i <= Len(Schedule(cfg)) /\ Schedule(cfg)[i].op = "callMerge"

\* C28: after a call without live return block the caller's block has no
\* snapshot, its instruction after the call is never analysed, and no
\* successor is handed a snapshot or a reference: every snapshot is held
\* only from outside the walk.
NeverReturningCallEndsWalk ==
  NeverReturns /\ AfterCallMerge =>
    /\ tlStoreOf[FnEntry] = NullStore
    /\ visits[FnEntry].insts = 0
    /\ \A b \in WBlocks \ {FnEntry, CalleeEntry} :
         tlStoreOf[b] = NullStore /\ visits[b].walks = 0
    /\ \A id \in 1 .. Len(heap) : heap[id].rc = HeldOutside(id)

\* The walk of a called function whose call never returns is over: the
\* caller's block was walked, and it is left without snapshot.
NeverReturningCallWitness ==
  /\ NeverReturns
  /\ ~cfg.main
  /\ WalkDone
  /\ visits[FnEntry].walks = 1
  /\ visits[CalleeEntry].insts = 1
  /\ tlStoreOf[FnEntry] = NullStore

\* How often the walk of the function reaches the blocks of U: U is
\* reached in the first pass, so it is walked twice if its back edge is
\* live and once if it is dead.
OuterWalks(c) == IF c.e31 THEN 2 ELSE 1

\* How often block b is walked in all.  A block of U itself and an
\* iteration of a terminated peel attempt are walked once each time the
\* walk of U reaches them; the unbounded nested loop V, whose back edge is
\* live, is walked twice when reached in U's only or first pass and once
\* when reached in U's second pass.
ExpectedWalks(c, b) ==
  IF b = OuterHeader THEN OuterWalks(c)
  ELSE IF b = OuterLatch THEN (IF c.e23 THEN OuterWalks(c) ELSE 0)
  ELSE IF b = Inner
    THEN (IF c.child = "plain" THEN OuterWalks(c)
          ELSE IF c.child = "unbounded" THEN (IF c.e31 THEN 2 + 1 ELSE 2)
          ELSE 0)
  ELSE IF IsIter(b)
    THEN (IF c.child = "peeled" /\ b <= IterBlock(c.iters) THEN OuterWalks(c) ELSE 0)
  ELSE 1

LoopBlocks == {b \in WBlocks : LoopContains("U", b)}

\* C29: the walk of every call/loop tree comes to its end, and then every
\* loop block was walked its bounded number of times: an iteration of a
\* peeled loop once per reach, an unbounded loop with live back edge twice
\* when reached in a first pass and once when reached in a second pass.
WalkTerminates ==
  /\ <>WalkDone
  /\ [](WalkDone /\ ~NeverReturns =>
          \A b \in LoopBlocks : visits[b].walks = ExpectedWalks(cfg, b))

\* The walk is over of a tree whose loop U has a live back edge and
\* contains the unbounded loop V: U was walked twice and V three times.
WalkTerminatesWitness ==
  /\ WalkDone
  /\ cfg.e31
  /\ cfg.child = "unbounded"
  /\ visits[OuterHeader].walks = 2
  /\ visits[Inner].walks = 2 + 1

\* The header of the iteration before the one that block b is the header of
\* (the loop's preheader for the first iteration).
HandsOnTo(b) == IF b = IterBlock(1) THEN OuterHeader ELSE b - 1

\* C38: the header of the first iteration of a terminated peel attempt
\* takes the store pointer of the loop's preheader and the header of every
\* later iteration that of the latch of the iteration before it, and each
\* header starts its walk from exactly that store, without a merge; an
\* iteration is walked after the one before it; and every iteration runs
\* with the suppression flag of the enclosing context or-ed with that of a
\* disabled peel attempt, so that a store instruction of an iteration
\* records its bytes only if neither is set.
IterationsThreadTheStore ==
  [][\A st \in {IF WalkDone THEN Step("none", FnEntry, FnEntry, "none", FALSE, FALSE,
                                      FALSE, FALSE, FALSE)
                ELSE CurStep} :
       IsIter(st.b) =>
         /\ st.op # "give" => st.dis = (cfg.suppressed \/ ~cfg.penabled)
         /\ st.op = "give" =>
              /\ st.from = HandsOnTo(st.b)
              /\ tlStoreOf'[st.b] = tlStoreOf[st.from]
              /\ heap' = heap
         /\ st.op = "begin" =>
              /\ tlStoreOf' = tlStoreOf
              /\ heap' = heap
              /\ st.b > IterBlock(1) => visits[st.b - 1].walks = visits[st.b].walks + 1
         /\ (st.op = "inst" /\ InstAt(cfg, st.b) = StoreX /\ tlStoreOf[st.b] # NullStore) =>
              Trusted(heap'[tlStoreOf'[st.b]].s, "X") =
                Trusted(heap[tlStoreOf[st.b]].s, "X") \cup
                  (IF st.dis \/ ~heap[tlStoreOf[st.b]].s.aoc THEN {} ELSE {0})]_vars

\* The walk of a function whose loop was peeled into MaxIters iterations
\* by a disabled peel attempt is over: every iteration was walked, the
\* last one on the store the one before it left, and the store to X in
\* them did not make X trusted.
IterationsThreadTheStoreWitness ==
  /\ WalkDone
  /\ cfg.child = "peeled"
  /\ cfg.iters = MaxIters
  /\ ~cfg.penabled /\ ~cfg.suppressed
  /\ cfg.vinst = StoreX
  /\ \A j \in 1 .. MaxIters : visits[IterBlock(j)].walks >= 1
  /\ tlStoreOf[IterBlock(MaxIters)] # NullStore
  /\ Trusted(heap[tlStoreOf[IterBlock(MaxIters)]].s, "X") = {}

\* ------------------------------------------------------------------------
\* SpecRange: markGoodBytes with any byte range of X, and merges, on two
\* snapshots that some yield point has clobbered.
\* ------------------------------------------------------------------------

RangeInit ==
  /\ MergeIdle
  /\ TLIdle
  /\ DSEIdle
  /\ BlockIdle
  /\ WalkIdle
  /\ QueryIdle
  /\ KIdle
  /\ rstores = <<AllClobbered, AllClobbered>>
  /\ rop = [op |-> "none", on |-> 1, added |-> << >>]

\* markGoodBytes(X + start, stop - start, true, BB) on snapshot i.
MarkGood ==
  \E i \in 1..2, start \in 0..(MaxByte - 1) :
    \E stop \in (start + 1)..MaxByte :
      /\ rstores' = [rstores EXCEPT
                       ![i] = markGoodBytes(rstores[i], "X", start, stop, TRUE)]
      /\ rop' = [op |-> "mark", on |-> i,
                 added |-> IF rstores[i].st["X"] = NoStore THEN << <<start, stop>> >>
                           ELSE AddRanges(rstores[i].st["X"], start, stop)]
      /\ UNCHANGED <<ovars, wvars, qvars, kvars>>

\* A merge at a join: snapshot i is retained and the other one merged
\* into it.
MergeRanges ==
  \E i \in 1..2 :
    /\ rstores' = [rstores EXCEPT ![i] = doMerge(<<rstores[i], rstores[3 - i]>>)]
    /\ rop' = [op |-> "merge", on |-> i, added |-> << >>]
    /\ UNCHANGED <<ovars, wvars, qvars, kvars>>

RangeNext == MarkGood \/ MergeRanges

SpecRange == RangeInit /\ [][RangeNext]_vars

\* Sorted, pairwise disjoint and non-adjacent non-empty intervals.
Coalesced(M) ==
  \A j \in 1..Len(M) :
    /\ M[j][1] < M[j][2]
    /\ j < Len(M) => M[j][2] < M[j + 1][1]

MemsetX == Inst("call", "X", 0, 1, "memset", "")
MemcpyXG == Inst("call", "X", 0, 1, "memcpy", "G")
ReadX == Inst("call", "X", 0, 1, "read", "")

CopyInsts == {MemsetX, MemcpyXG, ReadX}

\* A path condition on the bytes X[0,1): an Intmem (or String) condition,
\* or a path function whose one block stores to these bytes and returns.
PathIntmemX == Inst("pathcond", "X", 0, 1, "intmem", "")
PathFuncX == Inst("pathcond", "X", 0, 1, "func", "")

PathConds == {PathIntmemX, PathFuncX}

\* walkPathConditionsIn for one condition (lines 225-289): a byte
\* condition marks its bytes; a path function is walked with
\* commitDisabledHere false whatever the context, and the block takes the
\* merge of its return blocks.
walkPathConditionsIn(PC, store, contextEnabled, sp, singleThreaded) ==
  IF PC.fn = "func"
    THEN doTLCallMerge(
           << TLAnalyseInstruction(Inst("store", PC.o, PC.off, PC.sz, "", ""),
                                   "MustCheck", store, FALSE, sp, singleThreaded).store >>)
    ELSE markGoodBytes(store, PC.o, PC.off, PC.off + PC.sz, contextEnabled)

SuppressedInit ==
  /\ BlockInit
  /\ commitDisabledHere = TRUE
  /\ programSingleThreaded = FALSE

AnalyseCopy == AnalyseFrom(CopyInsts)

\* TLWalkPathConditions(BB, !commitDisabledHere, secondPass) at the start
\* of the next block of the run, in either pass.
TLWalkPathConditions ==
  /\ \/ /\ bpc = "first"
        /\ Len(insts) < MaxInsts
        /\ \E PC \in PathConds :
             LET r == walkPathConditionsIn(PC, cur, ~commitDisabledHere, FALSE,
                                           programSingleThreaded)
             IN  /\ insts' = Append(insts, PC)
                 /\ tlOf' = Append(tlOf, "NeverCheck")
                 /\ before' = Append(before, cur)
                 /\ after' = Append(after, r)
                 /\ cur' = r
     \/ /\ bpc = "second"
        /\ Len(before) < Len(insts)
        /\ insts[Len(before) + 1].k = "pathcond"
        /\ LET r == walkPathConditionsIn(insts[Len(before) + 1], cur,
                                         ~commitDisabledHere, TRUE,
                                         programSingleThreaded)
           IN  /\ before' = Append(before, cur)
               /\ after' = Append(after, r)
               /\ cur' = r
        /\ UNCHANGED <<insts, tlOf>>
  /\ UNCHANGED <<prog, succsAlive, commitDisabledHere, programSingleThreaded, tlStore,
                 isThreadLocal, readsTentativeData, tpc, secondPass, latchToHeader,
                 headerIn, firstPassTL, tlFirst, bpc>>
  /\ UNCHANGED <<mvars, dvars, xvars>>

SuppressedNext ==
  \/ AnalyseFirst
  \/ AnalyseCopy
  \/ TLWalkPathConditions
  \/ StartSecondWalk
  \/ AnalyseSecond

SpecSuppressed == SuppressedInit /\ [][SuppressedNext]_vars

\* What step i of the running pass added to the trusted bytes.
AddedTrust(i) == UNION {Trusted(after[i], o) \ Trusted(before[i], o) : o \in Objs}

QueryKinds == {"load", "memcpy", "store", "call", "phi", "other"}

QueryValues ==
  {v \in [isInst : BOOLEAN, kind : QueryKinds, voidCall : BOOLEAN, PB : BOOLEAN,
          needsRuntimeCheck : {"none", "asExpected", "lliowd", "memcmp"},
          isThreadLocal : {"NeverCheck", "NoCheck", "MustCheck"},
          ia : {"none", "enabled", "disabled", "tentative"},
          peelPred : BOOLEAN, whollyUnknown : BOOLEAN] :
     /\ v.kind \in {"load", "memcpy"} \/ v.isThreadLocal = "NeverCheck"
     /\ v.kind = "call" \/ (v.ia = "none" /\ ~v.voidCall)
     /\ v.kind = "phi" \/ ~v.peelPred
     /\ v.PB \/ ~v.whollyUnknown
     /\ v.isInst \/ (v.kind = "other" /\ ~v.PB /\ v.needsRuntimeCheck = "none")}

\* SI->getType()->isVoidTy(): stores and the memory-transfer intrinsics
\* return nothing.
isVoidTy(v) == v.kind \in {"store", "memcpy"} \/ (v.kind = "call" /\ v.voidCall)

\* IntegrationAttempt::requiresRuntimeCheck2.
requiresRuntimeCheck2(v, includeSpecialChecks) ==
  IF isVoidTy(v) THEN FALSE
  ELSE IF ~v.PB THEN FALSE
  ELSE IF v.needsRuntimeCheck = "asExpected" THEN TRUE
  ELSE IF includeSpecialChecks /\ v.needsRuntimeCheck \in {"lliowd", "memcmp"} THEN TRUE
  ELSE IF v.kind = "memcpy" \/ v.kind = "load" THEN v.isThreadLocal = "MustCheck"
  ELSE IF v.kind = "call" /\ v.ia # "none"
    THEN (IF v.ia = "tentative" THEN ~v.whollyUnknown ELSE FALSE)
  ELSE IF v.kind = "phi" THEN (IF v.peelPred THEN ~v.whollyUnknown ELSE FALSE)
  ELSE FALSE

\* llvm::requiresRuntimeCheck.
requiresRuntimeCheck(v, includeSpecialChecks, omitChecks) ==
  IF omitChecks THEN FALSE
  ELSE IF ~v.isInst THEN FALSE
  ELSE requiresRuntimeCheck2(v, includeSpecialChecks)

QueryInit ==
  /\ MergeIdle
  /\ TLIdle
  /\ DSEIdle
  /\ BlockIdle
  /\ WalkIdle
  /\ RangeIdle
  /\ KIdle
  /\ \E v \in QueryValues, special \in BOOLEAN, omit \in BOOLEAN :
       qin = [omitChecks |-> omit, includeSpecialChecks |-> special, V |-> v]
  /\ qout = "none"

\* The query is asked; nothing but its answer changes.
Query ==
  /\ qout = "none"
  /\ qout' = IF requiresRuntimeCheck(qin.V, qin.includeSpecialChecks, qin.omitChecks)
               THEN "true" ELSE "false"
  /\ UNCHANGED qin
  /\ UNCHANGED <<ovars, wvars, rvars, kvars>>

QueryNext == Query

SpecQuery == QueryInit /\ [][QueryNext]_vars

\* An analysed memory-reading instruction classified MustCheck.
MustCheckRead(v) ==
  v.isInst /\ v.PB /\ v.kind \in {"load", "memcpy"} /\ v.isThreadLocal = "MustCheck"

\* C30: the query answers true for every analysed load or memory copy
\* classified MustCheck when checks are not omitted, and false for every
\* value that is no instruction and whenever checks are omitted.
QueryAnswersMustCheckReads ==
  qout # "none" =>
    /\ (~qin.omitChecks /\ MustCheckRead(qin.V)) => qout = "true"
    /\ (qin.omitChecks \/ ~qin.V.isInst) => qout = "false"

\* ------------------------------------------------------------------------
\* SpecKill: IntegrationAttempt::tryKillAllMTIs over one context tree.  The
\* root function has three blocks: block 1 holds the transfer m1, a call of
\* F and the transfer m2; block 2 is the body of a loop and holds the
\* transfers mL1 and mL2; block 3 returns.  F holds the transfer mF.  The
\* loop has a peel attempt with kill.iters iterations, or none, and then its
\* block is walked in the root context and has a live back edge.  Every
\* transfer copies the whole of one alloca of the root function onto another
\* one, so that a write to M's destination covers it and the root's return
\* ends every lifetime.
\* ------------------------------------------------------------------------

KillObjs == {"A", "B", "C"}

Copies == { c \in [src : KillObjs, dst : KillObjs] : c.src # c.dst }

Statics == {"m1", "mF", "m2", "mL1", "mL2"}

MTI(s, it) == [s |-> s, it |-> it]

\* BBs of a context, in forward topological order; naturalScope is "L" for
\* the block of the loop seen from the root.
BBs(c) ==
  IF c.n = "root"
    THEN << [naturalScope |-> "root",
             insts |-> << [k |-> "mti", m |-> MTI("m1", 0)],
                          [k |-> "call", m |-> MTI("mF", 0)],
                          [k |-> "mti", m |-> MTI("m2", 0)] >>],
            [naturalScope |-> "L",
             insts |-> << [k |-> "mti", m |-> MTI("mL1", 0)],
                          [k |-> "mti", m |-> MTI("mL2", 0)] >>],
            [naturalScope |-> "root", insts |-> << [k |-> "ret", m |-> MTI("", 0)] >>] >>
  ELSE IF c.n = "F"
    THEN << [naturalScope |-> "F",
             insts |-> << [k |-> "mti", m |-> MTI("mF", 0)] >>] >>
  ELSE << [naturalScope |-> "L",
           insts |-> << [k |-> "mti", m |-> MTI("mL1", c.it)],
                        [k |-> "mti", m |-> MTI("mL2", c.it)] >>] >>

\* The contexts: the root, the inline attempt of F, the peeled iterations.
Context(n, it) == [n |-> n, it |-> it]

\* The context's own scope L.
ScopeOf(c) == IF c.n = "iter" THEN "L" ELSE c.n

isEnabledIn(k, c) == IF c.n = "F" THEN k.enF ELSE TRUE

\* The skip of the loop's blocks in tryKillAllMTIs: the index the loop over
\* the blocks goes on from.
RECURSIVE SkipLoopBlocks(_, _)
SkipLoopBlocks(c, i) ==
  IF i > 0 /\ BBs(c)[i].naturalScope = "L" THEN SkipLoopBlocks(c, i - 1) ELSE i

RECURSIVE tryKillAllMTIs(_, _)
RECURSIVE KillBlocks(_, _, _)
RECURSIVE KillInsts(_, _, _, _)
RECURSIVE KillIterations(_, _)
RECURSIVE KillInstsForwards(_, _, _, _)

\* The mutant of KillInsts: the instructions of a block first to last.
KillInstsForwards(k, c, i, j) ==
  IF j = 0 THEN << >>
  ELSE LET I == BBs(c)[i].insts[j]
       IN  KillInstsForwards(k, c, i, j - 1) \o
           (IF I.k = "mti" THEN << I.m >>
            ELSE IF I.k = "call" THEN tryKillAllMTIs(k, Context("F", 0))
            ELSE << >>)

\* The instructions of block i of context c from the j-th down: the calls
\* of tryKillMTI they make, in order.
KillInsts(k, c, i, j) ==
  IF j = 0 THEN << >>
  ELSE LET I == BBs(c)[i].insts[j]
       IN  (IF I.k = "mti" THEN << I.m >>
            ELSE IF I.k = "call" THEN tryKillAllMTIs(k, Context("F", 0))
            ELSE << >>) \o KillInsts(k, c, i, j - 1)

\* LPA->Iterations[j - 1] down to the first.
KillIterations(k, j) ==
  IF j = 0 THEN << >>
  ELSE tryKillAllMTIs(k, Context("iter", j)) \o KillIterations(k, j - 1)

\* The blocks of context c from the i-th down.
KillBlocks(k, c, i) ==
  IF i = 0 THEN << >>
  ELSE IF BBs(c)[i].naturalScope # ScopeOf(c) /\ k.peeled
    THEN KillIterations(k, k.iters) \o KillBlocks(k, c, SkipLoopBlocks(c, i))
  ELSE KillInsts(k, c, i, Len(BBs(c)[i].insts)) \o KillBlocks(k, c, i - 1)

tryKillAllMTIs(k, c) ==
  IF ~isEnabledIn(k, c) THEN << >> ELSE KillBlocks(k, c, Len(BBs(c)))

\* The transfers of the program in forward order, as a search that starts
\* at the top of the root and enters every call and iteration meets them.
RECURSIVE IterationsForward(_, _)
IterationsForward(k, j) ==
  IF j > k.iters THEN << >>
  ELSE << MTI("mL1", j), MTI("mL2", j) >> \o IterationsForward(k, j + 1)

LoopBody == << MTI("mL1", 0), MTI("mL2", 0) >>

ForwardOrder(k) ==
  << MTI("m1", 0), MTI("mF", 0), MTI("m2", 0) >> \o
  (IF k.peeled THEN IterationsForward(k, 1) ELSE LoopBody)

IndexIn(seq, x) == CHOOSE i \in 1 .. Len(seq) : seq[i] = x

\* The paths the forward walker follows from M to the root's return: the
\* instructions after M, and from a block of a loop that is not peeled
\* also the rest of the block and then, round the back edge, the block
\* again from its top down to M.
PathsFrom(k, M) ==
  LET fw == ForwardOrder(k)
      at == IndexIn(fw, M)
      rest == SubSeq(fw, at + 1, Len(fw))
  IN  IF ~k.peeled /\ M \in {MTI("mL1", 0), MTI("mL2", 0)}
        THEN { rest, rest \o SubSeq(LoopBody, 1, IndexIn(LoopBody, M)) }
        ELSE { rest }

\* IntegrationAttempt::callUsesPtr for the call of F: F refers to the bytes
\* of M's destination if its transfer reads them.
callUsesPtr(k, M) == k.copy["mF"].src = k.copy[M.s].dst

\* One path of the search for M from its i-th instruction on: the
\* transfers walkInstruction met and the unused-writer bit each had, and
\* whether the walk stopped as a whole.
RECURSIVE WalkPath(_, _, _, _, _)
WalkPath(k, M, path, i, met) ==
  IF i > Len(path) THEN [met |-> met, used |-> FALSE]
  ELSE LET T == path[i]
           viaCall == T.s = "mF"
           bit == T \in k.unused
           now == met \cup {[t |-> T, unused |-> bit]}
       IN  IF viaCall /\ ~callUsesPtr(k, M)
             THEN WalkPath(k, M, path, i + 1, met)
           ELSE IF viaCall /\ ~k.enF
             THEN [met |-> met, used |-> TRUE]
           ELSE IF ~bit /\ k.copy[T.s].src = k.copy[M.s].dst
             THEN [met |-> now, used |-> TRUE]
           ELSE IF k.copy[T.s].dst = k.copy[M.s].dst
             THEN [met |-> now, used |-> FALSE]
           ELSE WalkPath(k, M, path, i + 1, now)

KillConfigs ==
  { [peeled |-> p, iters |-> n, enF |-> e] :
      p \in BOOLEAN, n \in 0 .. MaxIters, e \in BOOLEAN }

KillInit ==
  /\ MergeIdle
  /\ TLIdle
  /\ DSEIdle
  /\ BlockIdle
  /\ WalkIdle
  /\ RangeIdle
  /\ QueryIdle
  /\ LoadIdle
  /\ CountIdle
  /\ JoinIdle
  /\ \E c \in KillConfigs, cp \in [Statics -> Copies] :
       /\ c.peeled <=> c.iters > 0
       /\ \E k \in {[pc |-> "run", peeled |-> c.peeled, iters |-> c.iters,
                     enF |-> c.enF, copy |-> cp, unused |-> {}, log |-> << >>,
                     todo |-> << >>]} :
            kill = [k EXCEPT !.todo = tryKillAllMTIs(k, Context("root", 0))]

\* tryKillMTI(M) for the next transfer of the run: tryKillWriterTo walks
\* every path from M and sets M's INSTSTATUS_UNUSED_WRITER bit if no path
\* stopped the walk as a whole.
tryKillMTI ==
  /\ kill.pc = "run"
  /\ kill.todo # << >>
  /\ \E M \in {Head(kill.todo)} :
     \E rs \in {{WalkPath(kill, M, p, 1, {}) : p \in PathsFrom(kill, M)}} :
     \E used \in {\E r \in rs : r.used} :
       kill' = [kill EXCEPT
                  !.todo = Tail(@),
                  !.unused = IF used THEN @ ELSE @ \cup {M},
                  !.log = Append(@, [m |-> M, used |-> used,
                                     met |-> UNION {r.met : r \in rs}])]
  /\ UNCHANGED <<ovars, wvars, rvars, qvars, ld, tally, join>>

\* The outermost tryKillAllMTIs returns.
tryKillAllMTIsReturn ==
  /\ kill.pc = "run"
  /\ kill.todo = << >>
  /\ kill' = [kill EXCEPT !.pc = "done"]
  /\ UNCHANGED <<ovars, wvars, rvars, qvars, ld, tally, join>>

KillNext == tryKillMTI \/ tryKillAllMTIsReturn

SpecKill == KillInit /\ [][KillNext]_vars

\* The transfers whose search has run, in the order it ran.
RECURSIVE Searched(_)
Searched(log) == IF log = << >> THEN << >> ELSE << log[1].m >> \o Searched(Tail(log))

RECURSIVE Reversed(_)
Reversed(seq) == IF seq = << >> THEN << >> ELSE Reversed(Tail(seq)) \o << seq[1] >>

\* M comes before T in the forward order of the program.
ComesBefore(k, M, T) == IndexIn(ForwardOrder(k), M) < IndexIn(ForwardOrder(k), T)

\* The searches run last to first: at the end the order they ran in is the
\* reverse of the forward order of the transfers of the enabled contexts.
RanInReverseOrder ==
  kill.pc = "done" =>
    Searched(kill.log) =
      Reversed(SelectSeq(ForwardOrder(kill), LAMBDA T : T.s # "mF" \/ kill.enF))

\* A transfer the search met counted as a reader exactly if it reads M's
\* destination and was not marked as an unused writer.
ReaderUnlessUnusedWriter ==
  \A e \in 1 .. Len(kill.log) :
    LET E == kill.log[e]
        blocked == callUsesPtr(kill, E.m) /\ ~kill.enF /\ E.m = MTI("m1", 0)
    IN  E.used <=>
          \/ blocked
          \/ \E r \in E.met :
               ~r.unused /\ kill.copy[r.t.s].src = kill.copy[E.m.s].dst

\* C32 as stated: the searches run in reverse order, a met transfer counts
\* as a reader only if it was not marked an unused writer, and every
\* transfer the search for M met had its final verdict then: the bit the
\* search saw is the bit the transfer has when the run is over.
EveryReachedTransferFinal ==
  /\ RanInReverseOrder
  /\ ReaderUnlessUnusedWriter
  /\ kill.pc = "done" =>
       \A e \in 1 .. Len(kill.log) : \A r \in kill.log[e].met :
         r.unused = (r.t \in kill.unused)

\* C32: the searches run in reverse order, a met transfer counts as a
\* reader only if it was not marked an unused writer, and every transfer
\* that comes after M in the forward order had its final verdict when the
\* search for M met it (a transfer met round the back edge of a loop that
\* is not peeled has not been searched yet).
LaterTransfersFinal ==
  /\ RanInReverseOrder
  /\ ReaderUnlessUnusedWriter
  /\ \A e \in 1 .. Len(kill.log) : \A r \in kill.log[e].met :
       ComesBefore(kill, kill.log[e].m, r.t) =>
         /\ r.unused = (r.t \in kill.unused)
         /\ \A i \in 1 .. Len(kill.todo) : kill.todo[i] # r.t

\* A run in which a transfer was found dead although the search met a
\* reader of its destination, in a peeled iteration or the callee, because
\* that reader had already been marked an unused writer.
LaterTransfersFinalWitness ==
  /\ kill.pc = "done"
  /\ \E e \in 1 .. Len(kill.log) :
       /\ ~kill.log[e].used
       /\ \E r \in kill.log[e].met :
            /\ r.unused
            /\ kill.copy[r.t.s].src = kill.copy[kill.log[e].m.s].dst
            /\ r.t.s \in {"mF", "mL1"}
            /\ r.t.s = "mL1" => r.t.it = kill.iters /\ kill.iters > 1

\* ------------------------------------------------------------------------
\* SpecLoad: IntegrationAttempt::shouldCheckLoadFrom, once, on a store a
\* block can hold.  The load reads LoadSize bytes at offset off of the
\* object o; its value SI.i.PB is a single value, or an
\* ImprovedValSetMulti whose map splits the bytes read into consecutive
\* parts, each wholly unknown or not.
\* ------------------------------------------------------------------------

\* The maps of an ImprovedValSetMulti over the bytes [from, size) of the
\* load, as sequences of parts [start, stop, unknown].
RECURSIVE PartsFrom(_, _)
PartsFrom(from, size) ==
  IF from = size THEN {<< >>}
  ELSE UNION { { << [start |-> from, stop |-> stop, unknown |-> u] >> \o rest :
                   rest \in PartsFrom(stop, size) } :
               stop \in (from + 1) .. size, u \in BOOLEAN }

\* SI.i.PB of the load: a single value, or a multi with its map.
LoadValues(size) ==
  {[multi |-> FALSE, Map |-> << >>]} \cup
  {[multi |-> TRUE, Map |-> m] : m \in PartsFrom(0, size)}

LoadObjs == Objs \cup {"null"}

\* One part of the map makes the load MustCheck.
RECURSIVE AnyPartChecked(_, _, _, _, _)
AnyPartChecked(store, o, off, Map, i) ==
  IF i > Len(Map) THEN FALSE
  ELSE IF Map[i].unknown THEN AnyPartChecked(store, o, off, Map, i + 1)
  ELSE IF shouldCheckRead(store, o, off + Map[i].start, Map[i].stop - Map[i].start)
    THEN TRUE
  ELSE AnyPartChecked(store, o, off, Map, i + 1)

shouldCheckLoadFrom(store, o, off, LoadSize, PB) ==
  IF o = "null" THEN "NeverCheck"
  ELSE IF PB.multi
    THEN (IF AnyPartChecked(store, o, off, PB.Map, 1) THEN "MustCheck" ELSE "NoCheck")
  ELSE IF shouldCheckRead(store, o, off, LoadSize) THEN "MustCheck" ELSE "NoCheck"

LoadInit ==
  /\ MergeIdle
  /\ TLIdle
  /\ DSEIdle
  /\ BlockIdle
  /\ WalkIdle
  /\ RangeIdle
  /\ QueryIdle
  /\ KillIdle
  /\ CountIdle
  /\ JoinIdle
  /\ \E s \in MergeInputs, o \in LoadObjs, off \in Bytes :
     \E size \in 1 .. (MaxByte - off) :
     \E pb \in LoadValues(size) :
       ld = [pc |-> "load", store |-> s, o |-> o, off |-> off, LoadSize |-> size,
             PB |-> pb, tl |-> "MustCheck"]

\* shouldCheckLoad's call of shouldCheckLoadFrom for the load's one target.
CheckLoadFrom ==
  /\ ld.pc = "load"
  /\ ld' = [ld EXCEPT !.pc = "done",
                      !.tl = shouldCheckLoadFrom(ld.store, ld.o, ld.off, ld.LoadSize, ld.PB)]
  /\ UNCHANGED <<ovars, wvars, rvars, qvars, kill, tally, join>>

LoadNext == CheckLoadFrom

SpecLoad == LoadInit /\ [][LoadNext]_vars

\* The bytes [a, b) are all trusted for ld.o in the load's store.
AllTrusted(a, b) == (a .. (b - 1)) \subseteq Trusted(ld.store, ld.o)

JoinBlocks == <<"P1", "P2", "J">>

\* Faulty variant: every block applies the condition, whichever block it
\* was declared from.
walkPathConditionsEveryBlock(PC, fromBB, BB, store, contextEnabled) ==
  walkPathConditionsIn(PC, store, contextEnabled, FALSE, FALSE)

\* walkPathConditions (lines 245-256) for one condition: it is skipped
\* unless it was declared from the block being walked.
walkPathConditions(PC, fromBB, BB, store, contextEnabled) ==
  IF BB # fromBB THEN store
  ELSE walkPathConditionsIn(PC, store, contextEnabled, FALSE, FALSE)

\* join.in holds the stores P1 and P2 have after their own merges,
\* join.out their stores when left, join.merged the result of J's
\* doTLStoreMerge and join.store J's store at its first instruction.
JoinInit ==
  /\ MergeIdle
  /\ TLIdle
  /\ DSEIdle
  /\ BlockIdle
  /\ WalkIdle
  /\ RangeIdle
  /\ QueryIdle
  /\ KillIdle
  /\ LoadIdle
  /\ CountIdle
  /\ \E e1 \in MergeInputs, e2 \in MergeInputs, PC \in PathConds,
        at \in {"P1", "P2", "J"}, en \in BOOLEAN :
       join = [pc |-> "preds", in |-> <<e1, e2>>, cond |-> PC, fromBB |-> at,
               contextEnabled |-> en, out |-> << >>, merged |-> EmptyStore,
               store |-> EmptyStore]

\* The walk of a predecessor: its merge has run (join.in), then
\* TLWalkPathConditions(BB, !commitDisabledHere, secondPass); the block has
\* no instruction and no successor but J.
WalkPredecessor ==
  /\ join.pc = "preds"
  /\ \E i \in {Len(join.out) + 1} :
       join' = [join EXCEPT
                  !.pc = IF i = 2 THEN "join" ELSE "preds",
                  !.out = Append(join.out,
                            walkPathConditions(join.cond, join.fromBB, JoinBlocks[i],
                                               join.in[i], join.contextEnabled))]
  /\ UNCHANGED <<ovars, wvars, rvars, qvars, kill, ld, tally>>

\* The walk of J up to its first instruction: doTLStoreMerge(BB), then
\* TLWalkPathConditions(BB, !commitDisabledHere, secondPass).
WalkJoinBlock ==
  /\ join.pc = "join"
  /\ \E m \in {doTLStoreMerge(join.out)} :
       join' = [join EXCEPT
                  !.pc = "done",
                  !.merged = m,
                  !.store = walkPathConditions(join.cond, join.fromBB, "J", m,
                                               join.contextEnabled)]
  /\ UNCHANGED <<ovars, wvars, rvars, qvars, kill, ld, tally>>

JoinNext == WalkPredecessor \/ WalkJoinBlock

SpecJoin == JoinInit /\ [][JoinNext]_vars

JoinWalked == join.pc = "done"

\* The bytes of the condition.
CondBytes == join.cond.off .. (join.cond.off + join.cond.sz - 1)

\* The condition marks bytes in a store whose allOthersClobbered flag is
\* set: a byte condition in a check-emitting context, a path function in
\* any context.
CondMarks(store) ==
  store.aoc /\ (join.cond.fn = "func" \/ join.contextEnabled)

MaxRuns == 2

QLoad(tl, nrc) ==
  [isInst |-> TRUE, kind |-> "load", voidCall |-> FALSE, PB |-> TRUE,
   needsRuntimeCheck |-> nrc, isThreadLocal |-> tl, ia |-> "none",
   peelPred |-> FALSE, whollyUnknown |-> FALSE]

\* The instructions counted over: a load to be checked against other
\* threads, a load that needs no check, and loads checked to implement a
\* path condition, one of them classified MustCheck as well.
CountInsts ==
  {QLoad("MustCheck", "none"), QLoad("NoCheck", "none"),
   QLoad("NoCheck", "asExpected"), QLoad("MustCheck", "asExpected")}

CountBlocks == {<< >>} \cup {<<v>> : v \in CountInsts}

CountCtxs == {"root", "F", "it1", "it2"}

IterCtxs == <<"it1", "it2">>

\* The trees counted: t.bbs[c] is the sequence of blocks of context c,
\* each with its natural scope ("" for the context's own scope, "L" for the
\* loop); t.peel says whether the loop has a peel attempt and whether it
\* isTerminated; contexts that do not exist have no blocks.
CountTrees ==
  { t \in [b1 : CountBlocks, b2 : CountBlocks, b3Live : BOOLEAN,
           call : BOOLEAN, fb : CountBlocks, fCommitted : BOOLEAN,
           peel : {"none", "open", "terminated"}, iters : 0 .. MaxIters,
           ib : CountBlocks] :
      /\ (t.peel = "none") <=> (t.iters = 0)
      /\ t.call \/ (t.fb = << >> /\ ~t.fCommitted)
      /\ t.peel # "none" \/ t.ib = << >> }

\* The blocks of context c in index order: the natural scope, whether
\* getBB returns a block, and the instructions.
CountBBs(t, c) ==
  CASE c = "root" -> << [scope |-> "", live |-> TRUE, insts |-> t.b1],
                        [scope |-> "L", live |-> TRUE, insts |-> t.b2],
                        [scope |-> "", live |-> t.b3Live, insts |-> << >>] >>
    [] c = "F" -> << [scope |-> "", live |-> TRUE, insts |-> t.fb] >>
    [] OTHER -> << [scope |-> "", live |-> TRUE, insts |-> t.ib] >>

isCommitted(t, c) == c = "F" /\ t.fCommitted

\* child_calls_begin .. child_calls_end and the iterations of the peel
\* attempts that are terminated (lines 1270-1290).
ChildCalls(t, c) == IF c = "root" /\ t.call THEN <<"F">> ELSE << >>

TerminatedIterations(t, c) ==
  IF c = "root" /\ t.peel = "terminated" THEN SubSeq(IterCtxs, 1, t.iters) ELSE << >>

\* The loop over the instructions of one block (lines 1253-1265).
RECURSIVE CountInBlock(_)
CountInBlock(BB) ==
  IF BB = << >> THEN 0
  ELSE (IF requiresRuntimeCheck2(BB[1], FALSE) /\ BB[1].needsRuntimeCheck = "none"
          THEN 1 ELSE 0) + CountInBlock(Tail(BB))

\* The loop over the blocks (lines 1229-1266): dead blocks and the blocks
\* of a child loop whose peel attempt is terminated are skipped.
RECURSIVE CountOwnBlocks(_, _, _)
CountOwnBlocks(t, c, i) ==
  IF i > Len(CountBBs(t, c)) THEN 0
  ELSE (IF ~CountBBs(t, c)[i].live THEN 0
        ELSE IF CountBBs(t, c)[i].scope = "L" /\ t.peel = "terminated" THEN 0
        ELSE CountInBlock(CountBBs(t, c)[i].insts))
       + CountOwnBlocks(t, c, i + 1)

\* countTentativeInstructions on context c: f.here and f.children are the
\* fields checkedInstructionsHere and checkedInstructionsChildren of every
\* context.  checkedInstructionsHere is incremented from the value it has;
\* checkedInstructionsChildren is assigned.
RECURSIVE countTentativeInstructions(_, _, _)
RECURSIVE CountChildren(_, _, _, _)
CountChildren(f, t, c, kids) ==
  IF kids = << >> THEN f
  ELSE LET g == countTentativeInstructions(f, t, kids[1])
       IN  CountChildren(
             [g EXCEPT !.children[c] = g.children[c] + g.children[kids[1]]],
             t, c, Tail(kids))

countTentativeInstructions(f, t, c) ==
  IF isCommitted(t, c) THEN f
  ELSE LET h == f.here[c] + CountOwnBlocks(t, c, 1)
           g == [f EXCEPT !.here[c] = h, !.children[c] = h]
       IN  CountChildren(g, t, c, ChildCalls(t, c) \o TerminatedIterations(t, c))

\* Every context is constructed with both fields zero.
CountInit ==
  /\ MergeIdle
  /\ TLIdle
  /\ DSEIdle
  /\ BlockIdle
  /\ WalkIdle
  /\ RangeIdle
  /\ QueryIdle
  /\ KillIdle
  /\ LoadIdle
  /\ JoinIdle
  /\ \E t \in CountTrees :
       tally = [pc |-> "count", tree |-> t, runs |-> 0, totals |-> << >>,
                here |-> [c \in CountCtxs |-> 0],
                children |-> [c \in CountCtxs |-> 0]]

\* One run of countTentativeInstructions on the root context.
CountRun ==
  /\ tally.pc = "count"
  /\ tally.runs < MaxRuns
  /\ \E g \in {countTentativeInstructions([here |-> tally.here,
                                            children |-> tally.children],
                                           tally.tree, "root")} :
       tally' = [tally EXCEPT !.runs = tally.runs + 1,
                              !.here = g.here,
                              !.children = g.children,
                              !.totals = Append(tally.totals, g.children["root"])]
  /\ UNCHANGED <<ovars, wvars, rvars, qvars, kill, ld, join>>

CountNext == CountRun

SpecCount == CountInit /\ [][CountNext]_vars

\* The instructions of context c's own blocks that require a check against
\* other threads and carry no path-condition check, without the blocks of a
\* terminated peeled loop.
RECURSIVE SumOver(_, _)
SumOver(F, S) ==
  IF S = {} THEN 0
  ELSE LET x == CHOOSE y \in S : TRUE IN F[x] + SumOver(F, S \ {x})

OwnChecked(c) ==
  LET bbs == CountBBs(tally.tree, c)
      counted == { i \in 1 .. Len(bbs) :
                     /\ bbs[i].live
                     /\ ~(bbs[i].scope = "L" /\ tally.tree.peel = "terminated")
                     /\ \E j \in 1 .. Len(bbs[i].insts) :
                          /\ bbs[i].insts[j].isThreadLocal = "MustCheck"
                          /\ bbs[i].insts[j].needsRuntimeCheck = "none" }
  IN  Cardinality(counted)

Kids(c) ==
  {ChildCalls(tally.tree, c)[i] : i \in 1 .. Len(ChildCalls(tally.tree, c))}
  \cup {TerminatedIterations(tally.tree, c)[i] :
          i \in 1 .. Len(TerminatedIterations(tally.tree, c))}

\* After a run the root's aggregate count is the number of its own checked
\* instructions plus the aggregate counts of its child calls and of the
\* iterations of its terminated peel attempt.
AggregateIsOwnPlusChildren ==
  tally.children["root"] = OwnChecked("root") + SumOver(tally.children, Kids("root"))

\* The first run counts every instruction once.
FirstCountExact ==
  tally.runs = 1 =>
    /\ AggregateIsOwnPlusChildren
    /\ \A c \in Kids("root") :
         tally.children[c] = IF isCommitted(tally.tree, c) THEN 0 ELSE OwnChecked(c)

\* C40: after countTentativeInstructions on an uncommitted context its
\* aggregate count is the number of its own instructions that require a
\* check against other threads, plus the aggregate counts of its child
\* calls and terminated peel iterations, each instruction counted once; a
\* second run on unchanged classifications yields the same totals.
CountExactAndRepeatable ==
  tally.runs >= 1 =>
    /\ AggregateIsOwnPlusChildren
    /\ \A i \in 1 .. Len(tally.totals) : tally.totals[i] = tally.totals[1]

====
